---- MODULE Spec2Model ----
(***************************************************************************)
(* Model of the conversation orchestrator of rag-mcp (src/chat):           *)
(* ChatManager.process_message and its multi-round tool loop, the          *)
(* ChatSession message log, the part of MCPClient the loop relies on and   *)
(* the knowledge-base query that selects the tool set of a turn.           *)
(*                                                                         *)
(* An optional Python value (None or a value) is a sequence of length at   *)
(* most one: <<>> is None, <<v>> is the value v.  A string that the code   *)
(* builds by formatting or joining is the sequence of its pieces.          *)
(***************************************************************************)
EXTENDS Integers, Sequences, FiniteSets, TLC

-----------------------------------------------------------------------------
(* Bounds of the model *)

\* process_message calls in one behaviour
MaxTurns == 2
\* largest configured CHAT_MAX_TOOL_ROUNDS explored
MaxRoundsCfg == 2
\* toolUse blocks in one LLM reply
MaxBlocks == 2
\* hits the retrieval service returns for one query
MaxHits == 1
\* longest session log explored: the caller and the LLM stay within it
MaxLog == 5
\* longest log of a ChatSession that is used directly
MaxSessionLog == 3
\* write_tools_to_knowledge_base calls in one behaviour
MaxWrites == 2
\* tool descriptors in one tools_data
MaxTools == 2
\* get_ingestion_job polls that fit into the timeout of one wait
MaxPolls == 2
\* operations on one MCPClient that are followed
MaxClientOps == 3
\* failed calls of process_message and sync_tools_to_kb followed
MaxCalls == 2

(* Program constants *)

\* top_k of the retrieval query of a turn
TopK == 2
\* max_results of the broad query behind queryall
QueryAllMaxResults == 100
\* max_tool_rounds when automatic tool calling is disabled
RoundsWhenAutoDisabled == 1

-----------------------------------------------------------------------------
(* Small input domains *)

UserInputs == {"a", "b"}
ToolUseIds == {1, 2}
StopReasons == {"tool_use", "end_turn"}
\* text blocks of an LLM reply: none, or one block
ReplyTexts == {<<>>, << <<"hi">> >>}
\* payloads of retrieval hits: a tool descriptor, an unparseable payload and
\* a payload that is JSON but no object
HitPayloads == {"{A}", "bad", "42"}
\* names of tool descriptors: "A", and "1", "2", ... for the long listings
ToolNames == {"A"} \cup {ToString(i) : i \in 1..(QueryAllMaxResults + 1)}
\* a tool descriptor {"toolSpec": {"name": name, ...}}
Descriptor(name) == [name |-> name]
\* json.dumps of a descriptor: the text of the JSON object that holds its name
JsonDumps(tool) == "{" \o tool.name \o "}"
DescriptorTexts == {JsonDumps(Descriptor(n)) : n \in ToolNames}
\* content.get('toolSpec', {}).get('name') of a parsed descriptor text
NameOf(text) == CHOOSE n \in ToolNames : JsonDumps(Descriptor(n)) = text
\* a listing of n tools named "1" to "n"
Listing(n) == [i \in 1..n |-> Descriptor(ToString(i))]
\* the broad probe text of queryall
BroadQuery == <<"tool function API method service utility helper">>
\* the converted live listing of the tool host (three tools)
LiveToolConfig == [tools |-> <<"{A}", "{B}", "{C}">>]

Min(a, b) == IF a < b THEN a ELSE b

SeqsUpTo(S, n) == UNION {[1..k -> S] : k \in 0..n}

\* usage blocks of a reply: every counter missing, all three present, or
\* only the input counter
NoUsage == [inputTokens |-> <<>>, outputTokens |-> <<>>, totalTokens |-> <<>>]
FullUsage == [inputTokens |-> <<1>>, outputTokens |-> <<1>>, totalTokens |-> <<2>>]
InputUsage == [inputTokens |-> <<3>>, outputTokens |-> <<>>, totalTokens |-> <<>>]
Usages == {NoUsage, FullUsage, InputUsage}

\* what the tool host can answer to one call_tool request
ToolOutcomes ==
    { [kind |-> "error_flag", text |-> <<>>],
      [kind |-> "transport", text |-> <<>>],
      [kind |-> "ok", text |-> <<>>],
      [kind |-> "ok", text |-> <<"{}">>],
      [kind |-> "ok", text |-> <<"plain">>] }

\* the states of self._mcp_client: no such attribute (initialize never ran),
\* None (after cleanup), or an MCPClient whose _session is set or not
NoClientAttr == [ref |-> "unset", session |-> FALSE]
NoneClient == [ref |-> "none", session |-> FALSE]
Client(session) == [ref |-> "client", session |-> session]

\* toolUse blocks the LLM can put into a reply
ToolUseBlocks == [toolUseId : ToolUseIds, name : {"A"}]

\* replies of the LLM service: toolUse blocks come with stop reason tool_use
LLMReplies ==
    { r \in [ stopReason : StopReasons,
              text : ReplyTexts,
              toolUses : SeqsUpTo(ToolUseBlocks, MaxBlocks),
              usage : Usages ] :
        r.toolUses # <<>> => r.stopReason = "tool_use" }

\* The tool loop is explored with every shape of reply and tool outcome, one
\* user input and one descriptor in the index
LoopUserInputs == {"a"}
LoopHits == SeqsUpTo({"{A}"}, MaxHits)
LoopReplies == {r \in LLMReplies : r.usage = FullUsage}

\* no more converse calls than this are followed in one turn
CallCap == MaxRoundsCfg + 3

-----------------------------------------------------------------------------
(* State *)

VARIABLES
    \* ChatSession
    messages,        \* self.messages
    user_inputs,     \* self.user_inputs
    \* ChatManager
    mcp_client,      \* self._mcp_client: "unset" (no attribute), "none", or a client
    tool_config_attr,\* self._tool_config (None, or the converted live listing)
    cfg,             \* self.config: max_tool_rounds, enable_auto_tool_calling
    \* one process_message call (locals of the coroutine)
    pc,              \* where the call is suspended, or how it ended
    tool_config,     \* local tool_config of process_message
    max_tool_rounds, \* parameter of _generate_response_with_tools
    tool_rounds,
    total_usage,
    pending,         \* tool requests of the reply not yet started
    current,         \* the tool request whose call_tool is outstanding
    result,          \* the dict returned, when pc = "returned"
    \* requests seen by the collaborators and inputs given by the caller
    kb_request,      \* retrieval requests of this turn: [text, numberOfResults]
    kb_response,     \* hits of the last answered retrieval request
    llm_requests,    \* converse requests of this turn: [messages, toolConfig]
    llm_replies,     \* replies received in this turn: stop reason, toolUse blocks,
                     \* text blocks and usage counters
    reported_usage,  \* sum of the usage counters the replies of this turn carried
    llm_failures,    \* converse calls of this turn that raised
    tool_requests,   \* call_tool requests sent to the host in this turn
    tool_failures,   \* for each of them answered so far: did call_tool raise
    given_inputs,    \* user inputs passed to process_message since the last clear
    given_use_kb,    \* use_kb_tools of this turn
    turns,           \* process_message calls so far
    \* a ChatSession used directly
    session_op,      \* the last ChatSession method called, its arguments and
                     \* the log as it was before the call
    \* BedrockKnowledgeBaseTools.write_tools_to_knowledge_base
    kb_pc,           \* where the call stands, or how it ended
    kb_input,        \* tools_data of the call, the store as the call found it,
                     \* and whether the call before had the same tools_data
    objects,         \* keys stored under the S3 prefix
    temp_file,       \* the temporary JSONL file: "none", "exists", "removed"
    kb_calls,        \* requests made so far: the call, whether it succeeded,
                     \* and what get_ingestion_job answered
    kb_outcome,      \* what each call so far returned or raised, and why
    object_lines,    \* the JSONL lines uploaded under each key
    kb_query,        \* what queryall has answered since the last write
    \* an MCPClient and the tool host
    mcp,             \* the attributes of the client (_session, _session_context,
                     \* _stdio_context, _tools) and, of the host side, the
                     \* process link and the session its contexts hold
    client_log,      \* the operations on the client so far: arguments, what
                     \* was returned or raised, requests sent to the host
    \* the caller of process_message and of sync_tools_to_kb
    caller_errors    \* the exceptions the calls so far have raised to it

store_vars == << object_lines, kb_query >>
corpus_vars == << kb_pc, kb_input, objects, temp_file, kb_calls, kb_outcome,
                 store_vars >>

client_vars == << mcp, client_log >>
error_vars == << caller_errors >>
side_vars == << client_vars, error_vars >>

vars == << messages, user_inputs, mcp_client, tool_config_attr, cfg, pc,
           tool_config, max_tool_rounds, tool_rounds, total_usage, pending,
           current, result, kb_request, kb_response, llm_requests,
           llm_replies, reported_usage, llm_failures, tool_requests,
           tool_failures, given_inputs, given_use_kb, turns, session_op,
           corpus_vars, side_vars >>

session_vars == << messages, user_inputs >>
manager_vars == << mcp_client, tool_config_attr, cfg >>
turn_vars == << pc, tool_config, max_tool_rounds, tool_rounds, total_usage,
                pending, current, result >>
env_vars == << kb_request, kb_response, llm_requests, llm_replies,
               reported_usage, llm_failures, tool_requests, tool_failures,
               given_use_kb >>
\* everything a ChatManager and its turn hold, the session aside
chat_vars == << manager_vars, turn_vars, env_vars, given_inputs, turns >>
\* what the ChatManager operations leave alone
apart_vars == << session_op, corpus_vars, side_vars >>

-----------------------------------------------------------------------------
(* ChatSession *)

Message(role, kind, body, id, status) ==
    [role |-> role, kind |-> kind, body |-> body, id |-> id, status |-> status]

\* add_user_message: the message appended
UserMessage(content) == Message("user", "text", <<content>>, 0, "")

\* add_user_message: the entry appended to user_inputs, f"user: {content}"
UserInputEntry(content) == <<"user: ", content>>

\* add_assistant_message
AssistantMessage(content) == Message("assistant", "text", content, 0, "")

\* add_tool_use
ToolUseMessage(tool) ==
    Message("assistant", "toolUse", <<tool.name>>, tool.toolUseId, "")

\* str(content) for the Python values of the model: a str is itself, a
\* dict or list prints in Python notation, not as JSON
StrOf(content) ==
    CASE content.type = "str" -> content.v
      [] content.v = "{A}" -> "{'A'}"
      [] OTHER -> content.v

\* every dict or list as json, whatever the status
ToolResultFormatAnyStatus(content, status) ==
    IF content.type \in {"dict", "list"} THEN "json" ELSE "text"

\* every content as text
ToolResultFormatAlwaysText(content, status) == "text"

\* add_tool_result: a Python value is [type, v]; dict and list go out as json
\* when the status is success, everything else as text
ToolResultFormat(content, status) ==
    IF status = "success" /\ content.type = "str" THEN "text"
    ELSE IF status = "success" /\ content.type \in {"dict", "list"} THEN "json"
    ELSE "text"

\* what the content block of the tool result holds: the value itself under
\* json and for a str with status success, str(content) otherwise
ToolResultPayload(content, status) ==
    IF status = "success" /\ content.type = "str" THEN content.v
    ELSE IF ToolResultFormat(content, status) = "json" THEN content.v
    ELSE StrOf(content)

\* add_tool_result with the role of add_tool_use
ToolResultMessageAsAssistant(tool_use_id, content, status) ==
    Message("assistant", "toolResult",
            <<ToolResultFormat(content, status), content.v>>, tool_use_id, status)

ToolResultMessage(tool_use_id, content, status) ==
    Message("user", "toolResult",
            <<ToolResultFormat(content, status),
              ToolResultPayload(content, status)>>, tool_use_id, status)

\* list.insert(0, message)
ListPrepend(log, message) == <<message>> \o log

\* self.messages.append(message), self.user_inputs.append(entry)
ListAppend(log, message) == Append(log, message)

RECURSIVE JoinLines(_)
\* get_conversation_context: "\n".join(self.user_inputs)
JoinLines(entries) ==
    IF entries = <<>> THEN <<>>
    ELSE IF Len(entries) = 1 THEN entries[1]
    ELSE entries[1] \o <<"\n">> \o JoinLines(Tail(entries))

-----------------------------------------------------------------------------
(* Python helpers *)

\* truth value of an optional string built from pieces: None and "" are false
TruthyStr(opt) == opt # <<>> /\ opt[1] # <<>>

\* truth value of an optional text of a tool result: None and "" are false
TruthyText(opt) == opt # <<>> /\ opt[1] # ""

\* truth value of an optional {"tools": [...]} dict: only None is false (a
\* dict with a key is true, whatever the list holds)
TruthyDict(opt) == opt # <<>>

\* b or a
PyOrSwapped(a, b) == IF TruthyDict(b) THEN b ELSE a

\* a or b, on optional dicts
PyOr(a, b) == IF TruthyDict(a) THEN a ELSE b

\* json.loads on the texts of the model: the parsed value, or JSONDecodeError
JsonLoads(text) ==
    CASE text \in {"{}"} \cup DescriptorTexts ->
             [ok |-> TRUE, type |-> "dict", v |-> text]
      [] text = "[]" -> [ok |-> TRUE, type |-> "list", v |-> text]
      [] text = "42" -> [ok |-> TRUE, type |-> "int", v |-> text]
      [] OTHER -> [ok |-> FALSE, type |-> "none", v |-> text]

PyStr(text) == [type |-> "str", v |-> text]

-----------------------------------------------------------------------------
(* BedrockKnowledgeBaseTools.query_semantic and BedrockKnowledgeBase *)

RECURSIVE ParseHits(_, _)
\* the loop over response["retrievalResults"]: a hit that is no JSON is
\* skipped; a hit that is JSON but no object makes content.get raise, which
\* the outer handler turns into a failed query
\* (the hits are gone through in order, the first half before the second,
\* which keeps the evaluation shallow for a page of a hundred hits)
ParseHits(hits, results) ==
    IF hits = <<>> THEN [ok |-> TRUE, tools |-> results]
    ELSE IF Len(hits) = 1
    THEN LET content == JsonLoads(hits[1]) IN
         IF ~content.ok THEN [ok |-> TRUE, tools |-> results]
         ELSE IF content.type # "dict" THEN [ok |-> FALSE, tools |-> <<>>]
         ELSE [ok |-> TRUE, tools |-> Append(results, content.v)]
    ELSE LET half == Len(hits) \div 2
             first == ParseHits(SubSeq(hits, 1, half), results)
         IN  IF ~first.ok THEN first
             ELSE ParseHits(SubSeq(hits, half + 1, Len(hits)), first.tools)

\* query_semantic: QueryResult(tools=results, total_results=len(results)),
\* or KnowledgeBaseError
QuerySemantic(hits) ==
    LET parsed == ParseHits(hits, <<>>)
    IN  [ok |-> parsed.ok, tools |-> parsed.tools,
         total_results |-> Len(parsed.tools)]

\* the retrieval request of BedrockKnowledgeBase.query(context, top_k=2)
QueryRequest(context) == [text |-> context, numberOfResults |-> TopK]

\* a queryall that asks for as many results as query does
QueryAllRequestTopK == [text |-> BroadQuery, numberOfResults |-> TopK]

\* the retrieval request of BedrockKnowledgeBase.queryall()
QueryAllRequest == [text |-> BroadQuery, numberOfResults |-> QueryAllMaxResults]

\* bedrock_format = {"tools": result.tools}
BedrockFormat(q) == <<[tools |-> q.tools]>>

-----------------------------------------------------------------------------
(* BedrockClient *)

\* converse: toolConfig is part of the request only when tool_config is truthy
ConverseRequest(msgs, tc) ==
    [messages |-> msgs, toolConfig |-> IF TruthyDict(tc) THEN tc ELSE <<>>]

UsageCounter(usage, key) == IF usage[key] = <<>> THEN 0 ELSE usage[key][1]

\* get_usage_info: a missing counter counts as 0
GetUsageInfo(usage) ==
    [input_tokens |-> UsageCounter(usage, "inputTokens"),
     output_tokens |-> UsageCounter(usage, "outputTokens"),
     total_tokens |-> UsageCounter(usage, "totalTokens")]

ZeroUsage == [input_tokens |-> 0, output_tokens |-> 0, total_tokens |-> 0]

\* a total that keeps the counters of the last call only
AddUsageLast(total, cur) == cur

\* for key in total_usage: total_usage[key] += current_usage[key]
AddUsage(total, cur) ==
    [key \in DOMAIN total |-> total[key] + cur[key]]

-----------------------------------------------------------------------------
(* MCPClient.call_tool, as _handle_tool_use meets it *)

\* what "await self._mcp_client.call_tool(...)" raises before any request is
\* sent: AttributeError without a client object, MCPToolError without a
\* session; "none" when the request goes out
ClientCallException(client) ==
    IF client.ref # "client" THEN "AttributeError"
    ELSE IF ~client.session THEN "MCPToolError"
    ELSE "none"

\* call_tool without its "except Exception" wrapper: a transport failure
\* leaves it as it is
CallToolExceptionUnwrapped(outcome) ==
    IF outcome.kind = "error_flag" THEN "MCPToolError"
    ELSE IF outcome.kind = "transport" THEN "Exception"
    ELSE "none"

\* what call_tool raises once the host has answered: the error flag and
\* every transport failure end as MCPToolError
CallToolException(outcome) ==
    IF outcome.kind \in {"error_flag", "transport"} THEN "MCPToolError"
    ELSE "none"

-----------------------------------------------------------------------------
(* ChatManager: helpers of the tool loop *)

RECURSIVE ConcatAll(_)
ConcatAll(parts) ==
    IF parts = <<>> THEN <<>> ELSE Head(parts) \o ConcatAll(Tail(parts))

\* _extract_text_content: the text blocks joined, None when there is none
ExtractTextContent(text_blocks) ==
    IF text_blocks = <<>> THEN <<>> ELSE <<ConcatAll(text_blocks)>>

\* the log after "if response_text: add_assistant_message(response_text)"
WithAssistantText(msgs, response_text) ==
    IF TruthyStr(response_text)
    THEN Append(msgs, AssistantMessage(response_text[1]))
    ELSE msgs

\* a final call that leaves the tools out
ConverseToolConfigFinalBare(site, tc, attr) ==
    IF site = "final" THEN <<>> ELSE PyOr(tc, attr)

\* the tool_config argument of a converse call, "tool_config or
\* self._tool_config" at the call site in the loop and at the final one
ConverseToolConfig(site, tc, attr) == PyOr(tc, attr)

\* max_tool_rounds as process_message passes it
MaxToolRoundsOf(config) ==
    IF config.enable_auto_tool_calling THEN config.max_tool_rounds
    ELSE RoundsWhenAutoDisabled

\* "except MCPToolError" of _handle_tool_use
HandlerCatches(exception) == exception = "MCPToolError"

\* the message appended for a failed tool: f"Tool {tool_name} failed: ..."
ToolErrorResult(tool) ==
    ToolResultMessage(tool.toolUseId, PyStr("Tool failed"), "error")

\* the tool result appended once call_tool has returned or raised
\* MCPToolError
ToolResultFor(tool, outcome) ==
    IF CallToolException(outcome) # "none"
    THEN ToolErrorResult(tool)
    ELSE IF TruthyText(outcome.text)
    THEN LET processed == JsonLoads(outcome.text[1]) IN
         IF processed.ok
         THEN ToolResultMessage(tool.toolUseId, processed, "success")
         ELSE ToolResultMessage(tool.toolUseId, PyStr(outcome.text[1]), "success")
    ELSE ToolResultMessage(tool.toolUseId, PyStr("no text content"), "error")

RECURSIVE RunToolsLastFirst(_, _, _)
\* a loop that goes through the requests of the reply from the last one
RunToolsLastFirst(client, msgs, reqs) ==
    IF reqs = <<>>
    THEN [status |-> "done", msgs |-> msgs, cur |-> <<>>, rest |-> <<>>]
    ELSE LET tool == reqs[Len(reqs)]
             others == SubSeq(reqs, 1, Len(reqs) - 1)
             m1 == Append(msgs, ToolUseMessage(tool))
             exception == ClientCallException(client)
         IN  IF exception = "none"
             THEN [status |-> "wait", msgs |-> m1, cur |-> <<tool>>,
                   rest |-> others]
             ELSE IF HandlerCatches(exception)
             THEN RunToolsLastFirst(client, Append(m1, ToolErrorResult(tool)),
                                    others)
             ELSE [status |-> "crash", msgs |-> m1, cur |-> <<>>, rest |-> <<>>]

RECURSIVE RunTools(_, _, _)
\* the for loop of _handle_tool_use up to its next suspension: "wait" when a
\* request went out to the tool host, "crash" when an exception the handler
\* does not catch left the loop, "done" when every request has its result
RunTools(client, msgs, reqs) ==
    IF reqs = <<>>
    THEN [status |-> "done", msgs |-> msgs, cur |-> <<>>, rest |-> <<>>]
    ELSE LET tool == Head(reqs)
             m1 == Append(msgs, ToolUseMessage(tool))
             exception == ClientCallException(client)
         IN  IF exception = "none"
             THEN [status |-> "wait", msgs |-> m1, cur |-> <<tool>>,
                   rest |-> Tail(reqs)]
             ELSE IF HandlerCatches(exception)
             THEN RunTools(client, Append(m1, ToolErrorResult(tool)), Tail(reqs))
             ELSE [status |-> "crash", msgs |-> m1, cur |-> <<>>, rest |-> <<>>]

\* a result that counts the answering call as a round
LoopResultCountingCall(text, usage, stop_reason, rounds) ==
    <<[text |-> text, usage |-> usage, stop_reason |-> stop_reason,
       tool_rounds |-> rounds + 1, max_rounds_reached |-> <<>>]>>

\* the dict returned from inside the loop
LoopResult(text, usage, stop_reason, rounds) ==
    <<[text |-> text, usage |-> usage, stop_reason |-> stop_reason,
       tool_rounds |-> rounds, max_rounds_reached |-> <<>>]>>

\* the dict of the final call without the max_rounds_reached entry
FinalResultUnmarked(text, usage, stop_reason, rounds) ==
    <<[text |-> text, usage |-> usage, stop_reason |-> stop_reason,
       tool_rounds |-> rounds, max_rounds_reached |-> <<>>]>>

\* the dict returned after the final call
FinalResult(text, usage, stop_reason, rounds) ==
    <<[text |-> text, usage |-> usage, stop_reason |-> stop_reason,
       tool_rounds |-> rounds, max_rounds_reached |-> <<TRUE>>]>>

\* messages a reply adds to the log when every tool request gets its result
ReplyCost(reply) ==
    (IF TruthyStr(ExtractTextContent(reply.text)) THEN 1 ELSE 0)
    + (IF reply.stopReason = "tool_use" THEN 2 * Len(reply.toolUses) ELSE 0)

-----------------------------------------------------------------------------
(* Initial state: a ChatManager as its constructor leaves it *)

\* no ChatSession method has been called directly
NoSessionOp ==
    [op |-> "none", id |-> 0, content |-> [type |-> "str", v |-> ""],
     status |-> "", before |-> <<>>]

\* write_tools_to_knowledge_base has not been called
NoWrite == [tools_data |-> <<>>, objects |-> {}, again |-> FALSE]

\* MCPClient.__init__: _session and _tools are None, the two context
\* attributes do not exist yet; nothing is open on the host side. A client
\* that replaces one whose link or session is open leaves those open.
NewClient(dropped_open) ==
    [session |-> "none", session_context |-> "unset",
     stdio_context |-> "unset", tools |-> "none",
     link |-> "closed", host_session |-> "closed", leaked |-> dropped_open]

Configs ==
    [max_tool_rounds : 0..MaxRoundsCfg, enable_auto_tool_calling : {TRUE}]
    \cup {[max_tool_rounds |-> MaxRoundsCfg, enable_auto_tool_calling |-> FALSE]}

Init ==
    /\ messages = <<>>
    /\ user_inputs = <<>>
    /\ mcp_client = NoClientAttr
    /\ tool_config_attr = <<>>
    /\ cfg \in Configs
    /\ pc = "idle"
    /\ tool_config = <<>>
    /\ max_tool_rounds = 0
    /\ tool_rounds = 0
    /\ total_usage = ZeroUsage
    /\ pending = <<>>
    /\ current = <<>>
    /\ result = <<>>
    /\ kb_request = <<>>
    /\ kb_response = <<>>
    /\ llm_requests = <<>>
    /\ llm_replies = <<>>
    /\ reported_usage = ZeroUsage
    /\ llm_failures = 0
    /\ tool_requests = <<>>
    /\ tool_failures = <<>>
    /\ given_inputs = <<>>
    /\ given_use_kb = FALSE
    /\ turns = 0
    /\ session_op = NoSessionOp
    /\ kb_pc = "idle"
    /\ kb_input = NoWrite
    /\ objects = {}
    /\ temp_file = "none"
    /\ kb_calls = <<>>
    /\ kb_outcome = <<>>
    /\ object_lines = [k \in 1..MaxWrites |-> <<>>]
    /\ kb_query = <<>>
    /\ mcp = NewClient(FALSE)
    /\ client_log = <<>>
    /\ caller_errors = <<>>

\* no process_message call is suspended
Quiescent == pc \in {"idle", "returned", "raised"}

\* the locals of a finished process_message call are gone, and so is the
\* record of the requests it made, once the caller goes on to something else
TurnForgotten ==
    /\ pc' = "idle"
    /\ tool_config' = <<>>
    /\ max_tool_rounds' = 0
    /\ tool_rounds' = 0
    /\ total_usage' = ZeroUsage
    /\ pending' = <<>>
    /\ current' = <<>>
    /\ result' = <<>>
    /\ kb_request' = <<>>
    /\ kb_response' = <<>>
    /\ llm_requests' = <<>>
    /\ llm_replies' = <<>>
    /\ reported_usage' = ZeroUsage
    /\ llm_failures' = 0
    /\ tool_requests' = <<>>
    /\ tool_failures' = <<>>
    /\ given_use_kb' = FALSE

-----------------------------------------------------------------------------
(* ChatManager.initialize, cleanup, sync_tools_to_kb, clear_conversation *)

\* initialize(False): a new MCPClient replaces self._mcp_client and connects;
\* when connect fails before the session is opened the client stays in
\* place without a session, and initialize raises ChatError
Initialize(connected) ==
    /\ Quiescent
    /\ mcp_client' = Client(connected)
    /\ TurnForgotten
    /\ UNCHANGED << session_vars, tool_config_attr, cfg, given_inputs, turns >>
    /\ UNCHANGED apart_vars

\* cleanup: disconnects the client and sets self._mcp_client to None; without
\* the attribute the AttributeError is caught and logged
Cleanup ==
    /\ Quiescent
    /\ mcp_client' = IF mcp_client.ref = "client" THEN NoneClient ELSE mcp_client
    /\ TurnForgotten
    /\ UNCHANGED << session_vars, tool_config_attr, cfg, given_inputs, turns >>
    /\ UNCHANGED apart_vars

\* sync_tools_to_kb: with a client whose list_tools succeeds, the converted
\* listing is stored in self._tool_config before it is written to the
\* knowledge base; otherwise it raises ChatError and changes nothing
SyncToolsToKb(list_ok) ==
    /\ Quiescent
    /\ tool_config_attr' =
          IF mcp_client.ref = "client" /\ mcp_client.session /\ list_ok
          THEN <<LiveToolConfig>> ELSE tool_config_attr
    /\ TurnForgotten
    /\ UNCHANGED << session_vars, mcp_client, cfg, given_inputs, turns >>
    /\ UNCHANGED apart_vars

\* ChatSession.clear: self.messages.clear()
ClearedLog == <<>>

\* a clear that forgets about user_inputs
StaleInputs(inputs) == inputs

\* ChatSession.clear: self.user_inputs.clear()
ClearedInputs(inputs) == <<>>

\* clear_conversation -> ChatSession.clear
ClearConversation ==
    /\ Quiescent
    /\ messages' = ClearedLog
    /\ user_inputs' = ClearedInputs(user_inputs)
    /\ given_inputs' = <<>>
    /\ TurnForgotten
    /\ UNCHANGED << manager_vars, turns >>
    /\ UNCHANGED apart_vars

-----------------------------------------------------------------------------
(* ChatManager.process_message and _generate_response_with_tools *)

\* get_conversation_context
ConversationContext(inputs) == JoinLines(inputs)

\* the retrieval request that selects the tool set of the turn
SelectionRequest(use_kb_tools, context) ==
    IF use_kb_tools THEN QueryRequest(context) ELSE QueryAllRequest

\* the loop test with <= in place of <
NextCallSiteInclusive(rounds, max) == IF rounds <= max THEN "llm" ELSE "final"

\* the loop as "while True"
NextCallSiteUnbounded(rounds, max) == "llm"

\* the loop test "while tool_rounds < max_tool_rounds": inside the loop the
\* next converse call is the round's, after it the final one
NextCallSite(rounds, max) == IF rounds < max THEN "llm" ELSE "final"

\* tool_rounds += 1
RoundsAfterToolUse(rounds) == rounds + 1

\* the next converse call goes out with the log as it is then
IssueConverse(msgs, rounds, max, tc) ==
    /\ pc' = NextCallSite(rounds, max)
    /\ llm_requests' = Append(llm_requests,
            ConverseRequest(msgs, ConverseToolConfig(NextCallSite(rounds, max),
                                                     tc, tool_config_attr)))

\* _handle_tool_use from the request at the head of reqs on, then the next
\* converse call if the loop over the requests ran to its end
ContinueTools(msgs, reqs, rounds) ==
    LET r == RunTools(mcp_client, msgs, reqs) IN
    /\ messages' = r.msgs
    /\ current' = r.cur
    /\ pending' = r.rest
    /\ IF r.status = "crash"
       THEN pc' = "raised" /\ UNCHANGED << llm_requests, tool_requests >>
       ELSE IF r.status = "wait"
       THEN /\ pc' = "tool"
            /\ tool_requests' = Append(tool_requests, r.cur[1])
            /\ UNCHANGED llm_requests
       ELSE /\ IssueConverse(r.msgs, rounds, max_tool_rounds, tool_config)
            /\ UNCHANGED tool_requests

\* process_message up to the knowledge-base query: the user message is
\* appended and the retrieval request for the tool set goes out
ProcessMessage(user_input, use_kb_tools) ==
    /\ Quiescent
    /\ turns < MaxTurns
    /\ Len(messages) < MaxLog
    /\ turns' = turns + 1
    /\ given_inputs' = Append(given_inputs, user_input)
    /\ given_use_kb' = use_kb_tools
    /\ messages' = Append(messages, UserMessage(user_input))
    /\ user_inputs' = Append(user_inputs, UserInputEntry(user_input))
    /\ kb_request' = <<SelectionRequest(use_kb_tools,
                                        ConversationContext(user_inputs'))>>
    /\ kb_response' = <<>>
    /\ pc' = "select"
    /\ tool_config' = <<>>
    /\ max_tool_rounds' = 0
    /\ tool_rounds' = 0
    /\ total_usage' = ZeroUsage
    /\ pending' = <<>>
    /\ current' = <<>>
    /\ result' = <<>>
    /\ llm_requests' = <<>>
    /\ llm_replies' = <<>>
    /\ reported_usage' = ZeroUsage
    /\ llm_failures' = 0
    /\ tool_requests' = <<>>
    /\ tool_failures' = <<>>
    /\ UNCHANGED manager_vars
    /\ UNCHANGED apart_vars

\* the retrieval service answers: query_semantic parses the hits, and with
\* the tool set chosen _generate_response_with_tools starts and issues its
\* first converse call; a query that fails makes process_message raise
KbQueryReturn(hits) ==
    /\ pc = "select"
    /\ Len(hits) <= Min(kb_request[1].numberOfResults, MaxHits)
    /\ kb_response' = <<hits>>
    /\ LET q == QuerySemantic(hits) IN
       IF ~q.ok
       THEN /\ pc' = "raised"
            /\ UNCHANGED << tool_config, max_tool_rounds, llm_requests >>
       ELSE /\ tool_config' = BedrockFormat(q)
            /\ max_tool_rounds' = MaxToolRoundsOf(cfg)
            /\ IssueConverse(messages, 0, max_tool_rounds', tool_config')
    /\ UNCHANGED << session_vars, manager_vars, tool_rounds, total_usage,
                    pending, current, result, kb_request, llm_replies,
                    reported_usage, llm_failures, tool_requests,
                    tool_failures, given_inputs, given_use_kb, turns >>
    /\ UNCHANGED apart_vars

\* a failed retrieval request after which the user message of the turn is
\* taken off the session again
KbQueryFailRolledBack ==
    /\ pc = "select"
    /\ pc' = "raised"
    /\ messages' = SubSeq(messages, 1, Len(messages) - 1)
    /\ user_inputs' = SubSeq(user_inputs, 1, Len(user_inputs) - 1)
    /\ UNCHANGED << manager_vars, tool_config, max_tool_rounds,
                    tool_rounds, total_usage, pending, current, result,
                    env_vars, given_inputs, turns >>
    /\ UNCHANGED apart_vars

\* the retrieval request itself fails: KnowledgeBaseError, then ChatError
KbQueryFail ==
    /\ pc = "select"
    /\ pc' = "raised"
    /\ UNCHANGED << session_vars, manager_vars, tool_config, max_tool_rounds,
                    tool_rounds, total_usage, pending, current, result,
                    env_vars, given_inputs, turns >>
    /\ UNCHANGED apart_vars

\* what the LLM service has answered in this turn
Received(reply) ==
    /\ Len(llm_requests) <= CallCap
    /\ llm_replies' = Append(llm_replies,
            [stopReason |-> reply.stopReason, blocks |-> Len(reply.toolUses),
             text |-> reply.text, toolUses |-> reply.toolUses,
             usage |-> reply.usage])
    /\ reported_usage' =
            [input_tokens |-> reported_usage.input_tokens
                              + UsageCounter(reply.usage, "inputTokens"),
             output_tokens |-> reported_usage.output_tokens
                              + UsageCounter(reply.usage, "outputTokens"),
             total_tokens |-> reported_usage.total_tokens
                              + UsageCounter(reply.usage, "totalTokens")]

\* a converse call of the loop returns
ConverseReturn(reply) ==
    /\ pc = "llm"
    /\ Len(messages) + ReplyCost(reply) <= MaxLog
    /\ Received(reply)
    /\ total_usage' = AddUsage(total_usage, GetUsageInfo(reply.usage))
    /\ LET response_text == ExtractTextContent(reply.text)
           msgs == WithAssistantText(messages, response_text)
       IN  IF reply.stopReason = "tool_use"
           THEN /\ tool_rounds' = RoundsAfterToolUse(tool_rounds)
                /\ ContinueTools(msgs, reply.toolUses, tool_rounds')
                /\ UNCHANGED result
           ELSE /\ messages' = msgs
                /\ result' = LoopResult(response_text, total_usage',
                                        reply.stopReason, tool_rounds)
                /\ pc' = "returned"
                /\ UNCHANGED << tool_rounds, pending, current, llm_requests,
                                tool_requests >>
    /\ UNCHANGED << user_inputs, manager_vars, tool_config, max_tool_rounds,
                    kb_request, kb_response, llm_failures, tool_failures,
                    given_inputs, given_use_kb, turns >>
    /\ UNCHANGED apart_vars

\* a converse call that is issued again when it has raised
ConverseFailRetried ==
    /\ pc \in {"llm", "final"}
    /\ Len(llm_requests) <= CallCap
    /\ llm_failures' = llm_failures + 1
    /\ llm_requests' = Append(llm_requests, llm_requests[Len(llm_requests)])
    /\ UNCHANGED << session_vars, manager_vars, turn_vars, kb_request,
                    kb_response, llm_replies, reported_usage, tool_requests,
                    tool_failures, given_inputs, given_use_kb, turns >>
    /\ UNCHANGED apart_vars

\* a converse call raises BedrockError: process_message raises ChatError
ConverseFail ==
    /\ pc \in {"llm", "final"}
    /\ Len(llm_requests) <= CallCap
    /\ pc' = "raised"
    /\ llm_failures' = llm_failures + 1
    /\ UNCHANGED << session_vars, manager_vars, tool_config, max_tool_rounds,
                    tool_rounds, total_usage, pending, current, result,
                    kb_request, kb_response, llm_requests, llm_replies,
                    reported_usage, tool_requests, tool_failures,
                    given_inputs, given_use_kb, turns >>
    /\ UNCHANGED apart_vars

\* the outstanding call_tool returns or raises: an exception the handler
\* catches and a returned result both end in a tool result, after which the
\* loop over the requests of the reply goes on; any other exception leaves
\* process_message
CallToolReturn(outcome) ==
    /\ pc = "tool"
    /\ tool_failures' = Append(tool_failures, CallToolException(outcome) # "none")
    /\ IF CallToolException(outcome) = "none"
          \/ HandlerCatches(CallToolException(outcome))
       THEN ContinueTools(Append(messages, ToolResultFor(current[1], outcome)),
                          pending, tool_rounds)
       ELSE /\ pc' = "raised"
            /\ UNCHANGED << messages, current, pending, llm_requests,
                            tool_requests >>
    /\ UNCHANGED << user_inputs, manager_vars, tool_config, max_tool_rounds,
                    tool_rounds, total_usage, result, kb_request, kb_response,
                    llm_replies, reported_usage, llm_failures, given_inputs,
                    given_use_kb, turns >>
    /\ UNCHANGED apart_vars

\* the final converse call, made after the round limit, returns
FinalConverseReturn(reply) ==
    /\ pc = "final"
    /\ Len(messages) + ReplyCost(reply) <= MaxLog
    /\ Received(reply)
    /\ total_usage' = AddUsage(total_usage, GetUsageInfo(reply.usage))
    /\ LET final_text == ExtractTextContent(reply.text) IN
       /\ messages' = WithAssistantText(messages, final_text)
       /\ result' = FinalResult(final_text, total_usage', reply.stopReason,
                                tool_rounds)
    /\ pc' = "returned"
    /\ UNCHANGED << user_inputs, manager_vars, tool_config, max_tool_rounds,
                    tool_rounds, pending, current, kb_request, kb_response,
                    llm_requests, llm_failures, tool_requests, tool_failures,
                    given_inputs, given_use_kb, turns >>
    /\ UNCHANGED apart_vars

\* the collaborators answer the call that is outstanding
Answer ==
    \/ \E hits \in LoopHits : KbQueryReturn(hits)
    \/ KbQueryFail
    \/ \E reply \in LoopReplies : ConverseReturn(reply)
    \/ ConverseFail
    \/ \E outcome \in ToolOutcomes : CallToolReturn(outcome)
    \/ \E reply \in LoopReplies : FinalConverseReturn(reply)

\* the caller of the ChatManager acts
Call ==
    \/ \E connected \in BOOLEAN : Initialize(connected)
    \/ Cleanup
    \/ ClearConversation
    \/ \E user_input \in LoopUserInputs, use_kb_tools \in BOOLEAN :
          ProcessMessage(user_input, use_kb_tools)

Next == Call \/ Answer

Spec == Init /\ [][Next]_vars

\* every outstanding LLM, tool and retrieval call is eventually answered
FairSpec == Spec /\ WF_vars(Answer)

-----------------------------------------------------------------------------
(* Tool-set selection is explored with every kind of hit, two user inputs  *)
(* and the live listing stored by sync_tools_to_kb, and with replies that  *)
(* carry at most one tool request                                          *)

SelectHits == SeqsUpTo(HitPayloads, MaxHits)
SelectReplies ==
    {r \in LLMReplies : /\ r.usage = FullUsage
                        /\ r.text = <<>>
                        /\ Len(r.toolUses) <= 1
                        /\ \A i \in DOMAIN r.toolUses : r.toolUses[i].toolUseId = 1}
SelectOutcomes == {[kind |-> "ok", text |-> <<"{}">>]}

AnswerSelect ==
    \/ \E hits \in SelectHits : KbQueryReturn(hits)
    \/ KbQueryFail
    \/ \E reply \in SelectReplies : ConverseReturn(reply)
    \/ \E outcome \in SelectOutcomes : CallToolReturn(outcome)
    \/ \E reply \in SelectReplies : FinalConverseReturn(reply)

CallSelect ==
    \/ Initialize(TRUE)
    \/ \E list_ok \in BOOLEAN : SyncToolsToKb(list_ok)
    \/ ClearConversation
    \/ \E user_input \in UserInputs, use_kb_tools \in BOOLEAN :
          ProcessMessage(user_input, use_kb_tools)

NextSelect == CallSelect \/ AnswerSelect

SpecSelect == Init /\ [][NextSelect]_vars

-----------------------------------------------------------------------------
(* A ChatSession used directly: any method, with any argument *)

SessionTexts == {"a"}
SessionIds == {1}
\* Python values passed as content: a str, a dict, a list and an int
SessionContents ==
    { [type |-> "str", v |-> "plain"], [type |-> "dict", v |-> "{A}"],
      [type |-> "list", v |-> "[]"], [type |-> "int", v |-> "42"] }
SessionStatuses == {"success", "error", "other"}

SessionOp(op, id, content, status) ==
    [op |-> op, id |-> id, content |-> content, status |-> status,
     before |-> messages]

AddUserMessage(content) ==
    /\ Len(messages) < MaxSessionLog
    /\ messages' = ListAppend(messages, UserMessage(content))
    /\ user_inputs' = ListAppend(user_inputs, UserInputEntry(content))
    /\ session_op' = SessionOp("add_user_message", 0, PyStr(content), "")
    /\ UNCHANGED << chat_vars, corpus_vars, side_vars >>

AddAssistantMessage(content) ==
    /\ Len(messages) < MaxSessionLog
    /\ messages' = ListAppend(messages, AssistantMessage(<<content>>))
    /\ session_op' = SessionOp("add_assistant_message", 0, PyStr(content), "")
    /\ UNCHANGED << user_inputs, chat_vars, corpus_vars, side_vars >>

AddToolUse(tool) ==
    /\ Len(messages) < MaxSessionLog
    /\ messages' = ListAppend(messages, ToolUseMessage(tool))
    /\ session_op' = SessionOp("add_tool_use", tool.toolUseId, PyStr(tool.name), "")
    /\ UNCHANGED << user_inputs, chat_vars, corpus_vars, side_vars >>

AddToolResult(tool_use_id, content, status) ==
    /\ Len(messages) < MaxSessionLog
    /\ messages' = ListAppend(messages,
                              ToolResultMessage(tool_use_id, content, status))
    /\ session_op' = SessionOp("add_tool_result", tool_use_id, content, status)
    /\ UNCHANGED << user_inputs, chat_vars, corpus_vars, side_vars >>

SessionClear ==
    /\ messages' = ClearedLog
    /\ user_inputs' = ClearedInputs(user_inputs)
    /\ session_op' = SessionOp("clear", 0, PyStr(""), "")
    /\ UNCHANGED << chat_vars, corpus_vars, side_vars >>

NextSession ==
    \/ \E content \in SessionTexts : AddUserMessage(content)
    \/ \E content \in SessionTexts : AddAssistantMessage(content)
    \/ \E tool \in {t \in ToolUseBlocks : t.toolUseId \in SessionIds} :
          AddToolUse(tool)
    \/ \E tool_use_id \in SessionIds, content \in SessionContents,
          status \in SessionStatuses :
          AddToolResult(tool_use_id, content, status)
    \/ SessionClear

SpecSession == Init /\ [][NextSession]_vars

-----------------------------------------------------------------------------
(* BedrockKnowledgeBaseTools.write_tools_to_knowledge_base *)

\* tools_data: <<>> is a value that is no dict or has no "tools" key, <<l>> a
\* dict whose "tools" is the list l
ToolsDatas == {<<>>} \cup {<<l>> : l \in SeqsUpTo({Descriptor("A")}, MaxTools)}

\* keys of the objects the calls upload: one new key per call
ObjectKeys == 1..MaxWrites

\* statuses get_ingestion_job reports, the last three terminal
JobStatuses == {"IN_PROGRESS", "COMPLETE", "FAILED", "STOPPED"}

\* failureReasons of the ingestion job, when the service gives any
ReportedReasons == {<<>>, <<"bad record">>}

\* the response of get_ingestion_job: status and failureReasons are fields
\* of its "ingestionJob"
JobResponse(status, reasons) ==
    [ingestionJob |-> [status |-> status, failureReasons |-> reasons]]

\* a validation that only looks for the "tools" key
ToolsDataErrorKeyOnly(tools_data) ==
    IF tools_data = <<>> THEN "format" ELSE "none"

\* the two checks ahead of the try block
ToolsDataError(tools_data) ==
    IF tools_data = <<>> THEN "format"
    ELSE IF tools_data[1] = <<>> THEN "empty"
    ELSE "none"

\* a failed wait for the uploaded object that is only logged as well
FailureAbortsButWaits(call) == call \notin {"wait_absent", "wait_present"}

\* whether a failed request ends the operation: a failed wait for a deleted
\* key is logged and the loop goes on, every other failure raises
FailureAborts(call) == call # "wait_absent"

\* a clear that returns as soon as delete_objects has answered
AfterDeleteObjectsNoWait == "write_file"

\* where clear_knowledge_base_chunks goes once delete_objects has answered:
\* to the loop of object_not_exists waiters, one for every deleted key
AfterDeleteObjects == "wait_absent"

\* a batch delete that removes nothing
StoreAfterClearKept(stored, gone) == stored

\* the keys under the prefix after the batch delete, gone being the deleted
\* keys the waiters saw absent
StoreAfterClear(stored, gone) == stored \ gone

\* a file whose lines run from the last tool to the first
JsonlLinesReversed(tools) ==
    [i \in 1..Len(tools) |-> JsonDumps(tools[Len(tools) + 1 - i])]

\* _create_temp_jsonl_file: one line per tool, json.dumps of the tool
JsonlLines(tools) == [i \in 1..Len(tools) |-> JsonDumps(tools[i])]

RECURSIVE RecordsFrom(_, _, _)
RecordsFrom(keys, lines, k) ==
    IF k > MaxWrites THEN <<>>
    ELSE (IF k \in keys THEN lines[k] ELSE <<>>)
         \o RecordsFrom(keys, lines, k + 1)

\* what an ingestion job that completes has indexed: one record for every
\* line of every object under the prefix
Ingested(keys, lines) == RecordsFrom(keys, lines, 1)

\* the hits the retrieval service answers a request with: the
\* numberOfResults best-ranked records of the index, or all of them when
\* there are fewer; the ranking is the service's
Retrieve(index, request, reversed) ==
    LET ranked == IF reversed
                  THEN [i \in 1..Len(index) |-> index[Len(index) + 1 - i]]
                  ELSE index
    IN  SubSeq(ranked, 1, Min(request.numberOfResults, Len(ranked)))

\* queryall on the result of query_semantic: {"tools": result.tools}, or
\* KnowledgeBaseError
QueryAllResult(q) ==
    IF q.ok THEN [kind |-> "dict", tools |-> q.tools]
    ELSE [kind |-> "KnowledgeBaseError", tools |-> <<>>]

\* a wait that treats STOPPED like FAILED
WaitVerdictStoppedRaises(status) ==
    IF status = "COMPLETE" THEN "return"
    ELSE IF status \in {"FAILED", "STOPPED"} THEN "raise"
    ELSE "sleep"

\* a wait that goes on polling a job that was stopped
WaitVerdictStoppedSleeps(status) ==
    IF status = "COMPLETE" THEN "return"
    ELSE IF status = "FAILED" THEN "raise"
    ELSE "sleep"

\* wait_for_ingestion_job on the status of one poll
WaitVerdict(status) ==
    IF status = "COMPLETE" THEN "return"
    ELSE IF status = "FAILED" THEN "raise"
    ELSE IF status = "STOPPED" THEN "return"
    ELSE "sleep"

\* response.get("failureReasons", ["Unknown error"]): a key of the response
\* itself
FailureReasonsRead(response) ==
    IF "failureReasons" \in DOMAIN response /\ response["failureReasons"] # <<>>
    THEN response["failureReasons"][1]
    ELSE "Unknown error"

\* the exception that leaves the try block of write_tools_to_knowledge_base
\* for one raised inside it
Surfaced(inner) == "KnowledgeBaseError"

\* one entry of kb_outcome; cause and reported record what happened
Outcome(kind, status, message, cause, reported) ==
    [kind |-> kind, status |-> status, message |-> message, cause |-> cause,
     reported |-> reported]

\* BedrockKnowledgeBase.write_tools on an outcome of the call below it
WriteToolsOutcome(o) ==
    IF o.kind = "IngestionJobResult" THEN [kind |-> o.kind, status |-> o.status]
    ELSE [kind |-> "KnowledgeBaseError", status |-> ""]

\* sync_tools_to_kb on an outcome of write_tools
SyncToolsOutcome(w) ==
    IF w.kind = "IngestionJobResult" THEN [kind |-> "None", status |-> ""]
    ELSE [kind |-> "ChatError", status |-> ""]

KbCall(call, ok) == [call |-> call, ok |-> ok, status |-> ""]

Polls == Cardinality({i \in DOMAIN kb_calls : kb_calls[i].call = "get"})

\* an exception of kind inner is raised inside the outer try block; once
\* temp_file_path is bound the finally clause removes the file first
RaiseInside(inner, message, cause, reported, in_finally) ==
    /\ kb_outcome' = Append(kb_outcome,
            Outcome(Surfaced(inner),  "",
                    <<"Failed to write tools to Knowledge Base: ">> \o message,
                    cause, reported))
    /\ kb_pc' = IF in_finally THEN "cleanup" ELSE "raised"

\* write_tools_to_knowledge_base is called: the validation, then the request
\* that lists the objects under the prefix
WriteToolsToKnowledgeBase(tools_data) ==
    /\ kb_pc \in {"idle", "returned", "raised"}
    /\ Len(kb_outcome) < MaxWrites
    /\ kb_input' = [tools_data |-> tools_data, objects |-> objects,
                     again |-> tools_data = kb_input.tools_data]
    /\ temp_file' = "none"
    /\ IF ToolsDataError(tools_data) # "none"
       THEN /\ kb_outcome' = Append(kb_outcome,
                   Outcome("ValueError", "", <<"Invalid tools_data format">>,
                           ToolsDataError(tools_data), <<>>))
            /\ kb_pc' = "raised"
            /\ kb_calls' = <<>>
       ELSE /\ kb_pc' = "list"
            /\ kb_calls' = <<>>
            /\ UNCHANGED kb_outcome
    /\ UNCHANGED << objects, session_vars, chat_vars, session_op, side_vars >>
    /\ kb_query' = <<>>
    /\ UNCHANGED object_lines

\* list_objects_v2 answers: without "Contents" the clear is done, otherwise
\* delete_objects goes out for every key listed
ListObjectsReturn(ok) ==
    /\ kb_pc = "list"
    /\ kb_calls' = Append(kb_calls, KbCall("list", ok))
    /\ IF ~ok /\ FailureAborts("list")
       THEN RaiseInside("KnowledgeBaseError", <<"Failed to clear">>, "list",
                        <<>>, FALSE)
       ELSE /\ kb_pc' = IF objects = {} THEN "write_file" ELSE "delete"
            /\ UNCHANGED kb_outcome
    /\ UNCHANGED << kb_input, objects, temp_file, session_vars, chat_vars,
                    session_op, side_vars >>
    /\ UNCHANGED store_vars

\* delete_objects answers; the keys may stay visible for a while
DeleteObjectsReturn(ok) ==
    /\ kb_pc = "delete"
    /\ kb_calls' = Append(kb_calls, KbCall("delete", ok))
    /\ IF ~ok /\ FailureAborts("delete")
       THEN RaiseInside("KnowledgeBaseError", <<"Failed to clear">>, "delete",
                        <<>>, FALSE)
       ELSE /\ kb_pc' = AfterDeleteObjects
            /\ UNCHANGED kb_outcome
    /\ UNCHANGED << kb_input, objects, temp_file, session_vars, chat_vars,
                    session_op, side_vars >>
    /\ UNCHANGED store_vars

\* the object_not_exists waiters have run for every deleted key: gone are
\* the keys confirmed absent; a waiter that gives up is logged
AbsenceWaited(gone) ==
    /\ kb_pc = "wait_absent"
    /\ gone \subseteq objects
    /\ objects' = StoreAfterClear(objects, gone)
    /\ kb_calls' = Append(kb_calls, KbCall("wait_absent", gone = objects))
    /\ IF gone # objects /\ FailureAborts("wait_absent")
       THEN RaiseInside("KnowledgeBaseError", <<"Failed to clear">>,
                        "wait_absent", <<>>, FALSE)
       ELSE /\ kb_pc' = "write_file"
            /\ UNCHANGED kb_outcome
    /\ UNCHANGED << kb_input, temp_file, session_vars, chat_vars, session_op, side_vars >>
    /\ object_lines' = [k \in DOMAIN object_lines |->
                           IF k \in gone THEN <<>> ELSE object_lines[k]]
    /\ UNCHANGED kb_query

\* an upload that leaves the object under the prefix also when it fails
StoreAfterUploadAlways(stored, key, ok) == stored \cup {key}

\* the keys under the prefix once upload_file has answered: the new key is
\* added to whatever is there
StoreAfterUpload(stored, key, ok) == IF ok THEN stored \cup {key} ELSE stored

\* _create_temp_jsonl_file: the file is created and the lines written; when
\* that fails the file may or may not exist already, and temp_file_path is
\* never bound
TempFileWritten(created, ok) ==
    /\ kb_pc = "write_file"
    /\ ok => created
    /\ temp_file' = IF created THEN "exists" ELSE "none"
    /\ kb_calls' = Append(kb_calls, KbCall("write_file", ok))
    /\ IF ~ok /\ FailureAborts("write_file")
       THEN RaiseInside("KnowledgeBaseError", <<"Failed to create file">>,
                        "write_file", <<>>, FALSE)
       ELSE /\ kb_pc' = "upload"
            /\ UNCHANGED kb_outcome
    /\ UNCHANGED << kb_input, objects, session_vars, chat_vars, session_op, side_vars >>
    /\ UNCHANGED store_vars

\* upload_file answers; the key is the prefix and the name of the file
UploadReturn(ok) ==
    /\ kb_pc = "upload"
    /\ kb_calls' = Append(kb_calls, KbCall("upload", ok))
    /\ objects' = StoreAfterUpload(objects, Len(kb_outcome) + 1, ok)
    /\ IF ~ok /\ FailureAborts("upload")
       THEN RaiseInside("KnowledgeBaseError", <<"Failed to upload">>, "upload",
                        <<>>, TRUE)
       ELSE /\ kb_pc' = "wait_present"
            /\ UNCHANGED kb_outcome
    /\ UNCHANGED << kb_input, temp_file, session_vars, chat_vars, session_op, side_vars >>
    /\ object_lines' =
          IF ok THEN [object_lines EXCEPT
                         ![Len(kb_outcome) + 1] = JsonlLines(kb_input.tools_data[1])]
          ELSE object_lines
    /\ UNCHANGED kb_query

\* the object_exists waiter answers
PresenceWaited(ok) ==
    /\ kb_pc = "wait_present"
    /\ kb_calls' = Append(kb_calls, KbCall("wait_present", ok))
    /\ IF ~ok /\ FailureAborts("wait_present")
       THEN RaiseInside("KnowledgeBaseError", <<"Failed to upload">>,
                        "wait_present", <<>>, TRUE)
       ELSE /\ kb_pc' = "start"
            /\ UNCHANGED kb_outcome
    /\ UNCHANGED << kb_input, objects, temp_file, session_vars, chat_vars,
                    session_op, side_vars >>
    /\ UNCHANGED store_vars

\* start_ingestion_job answers
StartIngestionJobReturn(ok) ==
    /\ kb_pc = "start"
    /\ kb_calls' = Append(kb_calls, KbCall("start", ok))
    /\ IF ~ok /\ FailureAborts("start")
       THEN RaiseInside("KnowledgeBaseError", <<"Failed to start">>, "start",
                        <<>>, TRUE)
       ELSE /\ kb_pc' = "poll"
            /\ UNCHANGED kb_outcome
    /\ UNCHANGED << kb_input, objects, temp_file, session_vars, chat_vars,
                    session_op, side_vars >>
    /\ UNCHANGED store_vars

\* get_ingestion_job answers inside wait_for_ingestion_job; after a status
\* that is not terminal the wait sleeps, and then either polls again or
\* finds the timeout passed
GetIngestionJobReturn(status, reasons, time_left) ==
    /\ kb_pc = "poll"
    /\ time_left => Polls + 1 < MaxPolls
    /\ kb_calls' = Append(kb_calls,
            [call |-> "get", ok |-> TRUE, status |-> status])
    /\ LET response == JobResponse(status, reasons)
           verdict == WaitVerdict(response.ingestionJob.status)
       IN  IF verdict = "return"
           THEN /\ kb_outcome' = Append(kb_outcome,
                       Outcome("IngestionJobResult", status, <<>>,
                               "terminal", <<>>))
                /\ kb_pc' = "cleanup"
           ELSE IF verdict = "raise"
           THEN RaiseInside("KnowledgeBaseError",
                            <<"Ingestion job failed: ",
                              FailureReasonsRead(response)>>,
                            "failed", reasons, TRUE)
           ELSE IF time_left
           THEN kb_pc' = "poll" /\ UNCHANGED kb_outcome
           ELSE RaiseInside("TimeoutError", <<"did not complete within">>,
                            "timeout", <<>>, TRUE)
    /\ UNCHANGED << kb_input, objects, temp_file, session_vars, chat_vars,
                    session_op, side_vars >>
    /\ UNCHANGED store_vars

\* get_ingestion_job raises
GetIngestionJobFail ==
    /\ kb_pc = "poll"
    /\ kb_calls' = Append(kb_calls, KbCall("get", FALSE))
    /\ RaiseInside("KnowledgeBaseError", <<"Failed to check status">>, "get",
                   <<>>, TRUE)
    /\ UNCHANGED << kb_input, objects, temp_file, session_vars, chat_vars,
                    session_op, side_vars >>
    /\ UNCHANGED store_vars

\* the finally clause: _cleanup_temp_file removes the file, or logs that it
\* could not; then the call returns or raises what it was about to
CleanupTempFile(removed) ==
    /\ kb_pc = "cleanup"
    /\ kb_calls' = Append(kb_calls, KbCall("remove", removed))
    /\ temp_file' = IF removed THEN "removed" ELSE temp_file
    /\ kb_pc' = IF kb_outcome[Len(kb_outcome)].kind = "IngestionJobResult"
                THEN "returned" ELSE "raised"
    /\ UNCHANGED << kb_input, objects, kb_outcome, session_vars, chat_vars,
                    session_op, side_vars >>
    /\ UNCHANGED store_vars

\* the index is known when the write before has returned with a job that
\* completed: the records that job read, the prefix not having changed since
IndexKnown ==
    /\ kb_pc = "returned"
    /\ kb_outcome[Len(kb_outcome)].status = "COMPLETE"

\* queryall right after such a write: the retrieval service answers the
\* broad probe from its index and query_semantic parses the hits
QueryAllReturn(reversed) ==
    /\ IndexKnown
    /\ kb_query = <<>>
    /\ kb_query' = <<QueryAllResult(
                       QuerySemantic(Retrieve(Ingested(objects, object_lines),
                                              QueryAllRequest, reversed)))>>
    /\ UNCHANGED << kb_pc, kb_input, objects, temp_file, kb_calls, kb_outcome,
                    object_lines, session_vars, chat_vars, session_op, side_vars >>

\* queryall when the retrieval request raises
QueryAllFail ==
    /\ IndexKnown
    /\ kb_query = <<>>
    /\ kb_query' = <<QueryAllResult([ok |-> FALSE, tools |-> <<>>])>>
    /\ UNCHANGED << kb_pc, kb_input, objects, temp_file, kb_calls, kb_outcome,
                    object_lines, session_vars, chat_vars, session_op, side_vars >>

NextCorpus ==
    \/ \E tools_data \in ToolsDatas : WriteToolsToKnowledgeBase(tools_data)
    \/ \E ok \in BOOLEAN : ListObjectsReturn(ok)
    \/ \E ok \in BOOLEAN : DeleteObjectsReturn(ok)
    \/ \E gone \in SUBSET ObjectKeys : AbsenceWaited(gone)
    \/ \E created, ok \in BOOLEAN : TempFileWritten(created, ok)
    \/ \E ok \in BOOLEAN : UploadReturn(ok)
    \/ \E ok \in BOOLEAN : PresenceWaited(ok)
    \/ \E ok \in BOOLEAN : StartIngestionJobReturn(ok)
    \/ \E status \in JobStatuses, reasons \in ReportedReasons,
          time_left \in BOOLEAN :
          GetIngestionJobReturn(status, reasons, time_left)
    \/ GetIngestionJobFail
    \/ \E removed \in BOOLEAN : CleanupTempFile(removed)

\* writing the corpus does not read the configuration of the rounds
InitCorpus ==
    /\ Init
    /\ cfg = [max_tool_rounds |-> MaxRoundsCfg, enable_auto_tool_calling |-> TRUE]

SpecCorpus == InitCorpus /\ [][NextCorpus]_vars

-----------------------------------------------------------------------------
(* The wait for the ingestion job is explored with writes whose steps      *)
(* before the wait succeed.  Every get_ingestion_job request is answered   *)
(* or fails, and every sleep of the wait ends                             *)

WaitDatas == {<< <<Descriptor("A")>> >>}

\* the poll that is outstanding is answered
PollAnswered ==
    \/ \E status \in JobStatuses, reasons \in ReportedReasons,
          time_left \in BOOLEAN :
          GetIngestionJobReturn(status, reasons, time_left)
    \/ GetIngestionJobFail

NextWait ==
    \/ \E tools_data \in WaitDatas : WriteToolsToKnowledgeBase(tools_data)
    \/ ListObjectsReturn(TRUE)
    \/ DeleteObjectsReturn(TRUE)
    \/ \E gone \in SUBSET ObjectKeys : AbsenceWaited(gone)
    \/ TempFileWritten(TRUE, TRUE)
    \/ UploadReturn(TRUE)
    \/ PresenceWaited(TRUE)
    \/ StartIngestionJobReturn(TRUE)
    \/ PollAnswered
    \/ \E removed \in BOOLEAN : CleanupTempFile(removed)

SpecWait == InitCorpus /\ [][NextWait]_vars /\ WF_vars(PollAnswered)

-----------------------------------------------------------------------------
(* Writing the corpus and reading it back with queryall is explored with  *)
(* one short list and two long listings, one that fills the page queryall *)
(* asks for and one that is a descriptor longer, and with ingestion jobs  *)
(* that end at their first poll                                           *)

IndexDatas ==
    {<< <<Descriptor("A")>> >>, <<Listing(QueryAllMaxResults)>>,
     <<Listing(QueryAllMaxResults + 1)>>}
IndexStatuses == {"COMPLETE", "FAILED"}

NextIndex ==
    \/ \E tools_data \in IndexDatas : WriteToolsToKnowledgeBase(tools_data)
    \/ ListObjectsReturn(TRUE)
    \/ DeleteObjectsReturn(TRUE)
    \/ \E gone \in SUBSET ObjectKeys : AbsenceWaited(gone)
    \/ TempFileWritten(TRUE, TRUE)
    \/ \E ok \in BOOLEAN : UploadReturn(ok)
    \/ PresenceWaited(TRUE)
    \/ StartIngestionJobReturn(TRUE)
    \/ \E status \in IndexStatuses : GetIngestionJobReturn(status, <<>>, FALSE)
    \/ CleanupTempFile(TRUE)
    \/ \E reversed \in BOOLEAN : QueryAllReturn(reversed)
    \/ QueryAllFail

SpecIndex == Init /\ [][NextIndex]_vars

-----------------------------------------------------------------------------
(* MCPClient: connect, disconnect, list_tools, call_tool, and the          *)
(* ChatManager entering and leaving "async with"                           *)

\* where connect can fail: spawning the tool host (stdio_client.__aenter__),
\* opening the session (ClientSession.__aenter__), the handshake
\* (session.initialize)
ConnectFailures == {"none", "spawn", "session", "handshake"}
\* how closing the session context can end
SessionCloses == {"ok", "error"}
\* how closing the stdio context can end, the wait being limited to 5 s
StdioCloses == {"ok", "error", "timeout"}
\* tool names given to call_tool
CallNames == {"A", "B"}
\* answers of the host to call_tool: the three kinds, without their payload
CallOutcomes == {o \in ToolOutcomes : o.text = <<>>}

\* one entry of client_log
ClientOp(op, arg, outcome, message, sent, attempts, before) ==
    [op |-> op, arg |-> arg, outcome |-> outcome, message |-> message,
     sent |-> sent, attempts |-> attempts, before |-> before]

Logged(entry) ==
    /\ Len(client_log) < MaxClientOps
    /\ client_log' = Append(client_log, entry)

\* the client after connect() ran up to the step that failed: every
\* assignment before that step has been made, and what an overwritten
\* context held open stays open
Connected(c, fail_at) ==
    [c EXCEPT
        !.stdio_context = "set",
        !.link = IF fail_at = "spawn" THEN "closed" ELSE "open",
        !.session_context =
            IF fail_at = "spawn" THEN c.session_context ELSE "set",
        !.host_session =
            CASE fail_at = "spawn" -> c.host_session
              [] fail_at = "session" -> "closed"
              [] fail_at = "handshake" -> "open"
              [] OTHER -> "ready",
        !.session =
            IF fail_at \in {"spawn", "session"} THEN c.session ELSE "set",
        !.leaked = \/ c.leaked
                   \/ c.link = "open"
                   \/ fail_at # "spawn" /\ c.host_session # "closed"]

\* what connect raises
ConnectException(fail_at) ==
    IF fail_at = "none" THEN "returned" ELSE "MCPToolError"

ConnectMessage(fail_at) ==
    IF fail_at = "none" THEN <<>>
    ELSE <<"Failed to connect to MCP server: ", fail_at>>

\* connect(), also as MCPClient.__aenter__
Connect(fail_at) ==
    /\ mcp' = Connected(mcp, fail_at)
    /\ Logged(ClientOp("connect", <<fail_at>>, ConnectException(fail_at),
                       ConnectMessage(fail_at), 0, {}, mcp))
    /\ UNCHANGED << session_vars, chat_vars, session_op, corpus_vars,
                    error_vars >>

\* the teardown steps disconnect attempts: closing the session context and
\* closing the stdio context, each when the attribute exists and is set;
\* each sits in its own try block, so the second follows a failed first
TeardownSteps(c, session_close) ==
    {step \in {"session", "stdio"} :
        \/ step = "session" /\ c.session_context = "set"
        \/ step = "stdio" /\ c.stdio_context = "set"}

\* a disconnect that lets the failure of a teardown step out
DisconnectExceptionUnguarded(steps, session_close, stdio_close) ==
    IF "session" \in steps /\ session_close # "ok" THEN "Exception"
    ELSE IF "stdio" \in steps /\ stdio_close = "timeout" THEN "TimeoutError"
    ELSE IF "stdio" \in steps /\ stdio_close = "error" THEN "Exception"
    ELSE "returned"

\* what disconnect raises: every failure of a step, the timeout included,
\* is caught and logged next to the step
DisconnectException(steps, session_close, stdio_close) == "returned"

\* the client after disconnect(): an attempted step sets its attributes to
\* None whether it failed or not; what a failed close leaves open on the
\* host side can no longer be closed
Disconnected(c, steps, session_close, stdio_close) ==
    [c EXCEPT
        !.session_context =
            IF "session" \in steps THEN "none" ELSE c.session_context,
        !.session = IF "session" \in steps THEN "none" ELSE c.session,
        !.host_session =
            IF "session" \in steps THEN "closed" ELSE c.host_session,
        !.stdio_context =
            IF "stdio" \in steps THEN "none" ELSE c.stdio_context,
        !.link = IF "stdio" \in steps THEN "closed" ELSE c.link,
        !.leaked =
            \/ c.leaked
            \/ /\ "session" \in steps
               /\ session_close # "ok"
               /\ c.host_session # "closed"
            \/ /\ "stdio" \in steps
               /\ stdio_close # "ok"
               /\ c.link = "open"]

\* a close that is not attempted has no answer (written as "ok")
Answered(c, session_close, stdio_close) ==
    /\ c.session_context # "set" => session_close = "ok"
    /\ c.stdio_context # "set" => stdio_close = "ok"

\* disconnect(), also as MCPClient.__aexit__
Disconnect(session_close, stdio_close) ==
    LET steps == TeardownSteps(mcp, session_close) IN
    /\ Answered(mcp, session_close, stdio_close)
    /\ mcp' = Disconnected(mcp, steps, session_close, stdio_close)
    /\ Logged(ClientOp("disconnect", <<session_close, stdio_close>>,
                       DisconnectException(steps, session_close, stdio_close),
                       <<>>, 0, steps, mcp))
    /\ UNCHANGED << session_vars, chat_vars, session_op, corpus_vars,
                    error_vars >>

\* a client that sends the request whatever _session is
SessionCheckSkipped(c) == "none"

\* "if not self._session: raise MCPToolError(...)" at the head of list_tools
\* and call_tool
SessionCheck(c) == IF c.session = "set" THEN "none" ELSE "MCPToolError"

NotInitialized == <<"MCP session not initialized">>

\* list_tools(): one request to the host through the session; the listing is
\* kept in self._tools
ListTools(ok) ==
    /\ IF SessionCheck(mcp) # "none"
       THEN /\ ok
            /\ Logged(ClientOp("list_tools", <<>>, SessionCheck(mcp),
                               NotInitialized, 0, {}, mcp))
            /\ UNCHANGED mcp
       ELSE /\ Logged(ClientOp("list_tools", <<>>,
                               IF ok THEN "returned" ELSE "MCPToolError",
                               IF ok THEN <<>>
                               ELSE <<"Failed to list MCP tools: ", "transport">>,
                               1, {}, mcp))
            /\ mcp' = IF ok THEN [mcp EXCEPT !.tools = "listed"] ELSE mcp
    /\ UNCHANGED << session_vars, chat_vars, session_op, corpus_vars,
                    error_vars >>

\* a call_tool that sends the request once more when it failed
CallToolRequestsRetrying(outcome) ==
    IF CallToolException(outcome) = "none" THEN 1 ELSE 2

\* the requests one call_tool sends to the host once the session check has
\* passed: self._session.call_tool is awaited once, outside any loop
CallToolRequests(outcome) == 1

\* the message of the MCPToolError call_tool raises: the error raised for
\* the error flag is caught by the handler below it and wrapped once more
CallToolMessage(tool_name, outcome) ==
    IF outcome.kind = "error_flag"
    THEN <<"Failed to call tool ", tool_name, ": ",
           "Tool ", tool_name, " execution failed">>
    ELSE IF outcome.kind = "transport"
    THEN <<"Failed to call tool ", tool_name, ": ", "transport">>
    ELSE <<>>

\* call_tool(tool_name, arguments)
CallTool(tool_name, outcome) ==
    /\ IF SessionCheck(mcp) # "none"
       THEN /\ outcome.kind = "ok"
            /\ Logged(ClientOp("call_tool", <<tool_name, outcome.kind>>,
                               SessionCheck(mcp), NotInitialized, 0, {}, mcp))
       ELSE Logged(ClientOp("call_tool", <<tool_name, outcome.kind>>,
                            IF CallToolException(outcome) = "none"
                            THEN "returned" ELSE CallToolException(outcome),
                            CallToolMessage(tool_name, outcome),
                            CallToolRequests(outcome), {}, mcp))
    /\ UNCHANGED << mcp, session_vars, chat_vars, session_op, corpus_vars,
                    error_vars >>

\* entering "async with ChatManager": initialize(False) puts a new MCPClient
\* into self._mcp_client and connects it; when connect raises, initialize
\* raises ChatError, __aenter__ with it, and __aexit__ is not run
EnterManager(fail_at) ==
    LET fresh == NewClient(\/ mcp.leaked
                           \/ mcp.link = "open"
                           \/ mcp.host_session # "closed")
    IN  /\ mcp' = Connected(fresh, fail_at)
        /\ mcp_client' = Client(mcp'.session = "set")
        /\ Logged(ClientOp("manager_enter", <<fail_at>>,
                           IF fail_at = "none" THEN "returned" ELSE "ChatError",
                           IF fail_at = "none" THEN <<>>
                           ELSE <<"Failed to initialize chat manager: ">>
                                \o ConnectMessage(fail_at),
                           0, {}, mcp))
        /\ UNCHANGED << session_vars, tool_config_attr, cfg, turn_vars,
                        env_vars, given_inputs, turns, session_op,
                        corpus_vars, error_vars >>

\* cleanup(), also as ChatManager.__aexit__: disconnects the client the
\* manager holds and forgets it; without one nothing is torn down
ManagerCleanup(session_close, stdio_close) ==
    LET steps == IF mcp_client.ref = "client"
                 THEN TeardownSteps(mcp, session_close) ELSE {}
    IN  /\ Answered(mcp, session_close, stdio_close)
        /\ mcp_client.ref # "client" => session_close = "ok" /\ stdio_close = "ok"
        /\ mcp' = Disconnected(mcp, steps, session_close, stdio_close)
        /\ mcp_client' = IF mcp_client.ref = "client" THEN NoneClient
                         ELSE mcp_client
        /\ Logged(ClientOp("cleanup", <<session_close, stdio_close>>,
                           "returned", <<>>, 0, steps, mcp))
        /\ UNCHANGED << session_vars, tool_config_attr, cfg, turn_vars,
                        env_vars, given_inputs, turns, session_op,
                        corpus_vars, error_vars >>

NextClient ==
    \/ \E fail_at \in ConnectFailures : Connect(fail_at)
    \/ \E session_close \in SessionCloses, stdio_close \in StdioCloses :
          Disconnect(session_close, stdio_close)
    \/ \E ok \in BOOLEAN : ListTools(ok)
    \/ \E tool_name \in CallNames, outcome \in CallOutcomes :
          CallTool(tool_name, outcome)
    \/ \E fail_at \in ConnectFailures : EnterManager(fail_at)
    \/ \E session_close \in SessionCloses, stdio_close \in StdioCloses :
          ManagerCleanup(session_close, stdio_close)

\* the client does not read the configuration of the rounds
InitClient ==
    /\ Init
    /\ cfg = [max_tool_rounds |-> MaxRoundsCfg, enable_auto_tool_calling |-> TRUE]

SpecClient == InitClient /\ [][NextClient]_vars

\* a ChatManager that is only initialized and cleaned up, as by the scripts
\* that enter "async with ChatManager" and call initialize() inside it
NextManager ==
    \/ \E fail_at \in ConnectFailures : EnterManager(fail_at)
    \/ \E session_close \in SessionCloses, stdio_close \in StdioCloses :
          ManagerCleanup(session_close, stdio_close)

SpecManager == InitClient /\ [][NextManager]_vars

-----------------------------------------------------------------------------
(* What reaches the caller of process_message and sync_tools_to_kb *)

\* str(e) of the failure underneath: what the service or the host reported
Reasons == {"timeout", "denied"}

\* how converse fails: botocore's ClientError, or anything else
ConverseCauses == {"ClientError", "Exception"}

\* whose failure it was
Origins == {"llm", "tool_host", "knowledge_base"}

\* an exception: its class and the pieces of its message
Raised(kind, message) == [kind |-> kind, message |-> message]

\* except Exception as e: raise Kind(f"<prefix>{str(e)}")
Wrapped(kind, prefix, e) == Raised(kind, <<prefix>> \o e.message)

\* BedrockClient.converse
ConverseRaised(cause, reason) ==
    IF cause = "ClientError"
    THEN Raised("BedrockError", <<"Bedrock API error: ", reason>>)
    ELSE Raised("BedrockError", <<"Unexpected error: ", reason>>)

\* query_semantic when the retrieve call fails
QuerySemanticRaised(reason) ==
    Raised("KnowledgeBaseError", <<"Failed to query Knowledge Base: ", reason>>)

\* BedrockKnowledgeBase.query
QueryRaised(e) ==
    Wrapped("KnowledgeBaseError", "Knowledge base query failed: ", e)

\* BedrockKnowledgeBase.queryall
QueryAllRaised(e) ==
    Wrapped("KnowledgeBaseError", "Knowledge base queryall failed: ", e)

\* ChatManager.get_all_kb_tools
GetAllKbToolsRaised(e) ==
    Wrapped("ChatError", "Failed to get all KB tools: ", e)

\* what selecting the tools of a turn raises when retrieval fails
SelectionRaised(use_kb_tools, reason) ==
    IF use_kb_tools THEN QueryRaised(QuerySemanticRaised(reason))
    ELSE GetAllKbToolsRaised(QueryAllRaised(QuerySemanticRaised(reason)))

\* MCPClient.list_tools when the request fails
ListToolsRaised(reason) ==
    Raised("MCPToolError", <<"Failed to list MCP tools: ", reason>>)

\* wait_for_ingestion_job on status FAILED; it re-raises its own error
IngestionFailedRaised(reason) ==
    Raised("KnowledgeBaseError", <<"Ingestion job failed: ", reason>>)

\* write_tools_to_knowledge_base
WriteToolsToKnowledgeBaseRaised(e) ==
    Wrapped("KnowledgeBaseError", "Failed to write tools to Knowledge Base: ", e)

\* BedrockKnowledgeBase.write_tools
WriteToolsRaised(e) ==
    Wrapped("KnowledgeBaseError", "Failed to write tools to Knowledge Base: ", e)

\* the handler of process_message
ProcessMessageRaised(e) ==
    Wrapped("ChatError", "Failed to process message: ", e)

\* the handler of sync_tools_to_kb
SyncToolsToKbRaised(e) ==
    Wrapped("ChatError", "Failed to sync tools to KB: ", e)

\* one entry of caller_errors
CallerError(call, origin, arg, error) ==
    [call |-> call, origin |-> origin, arg |-> arg, error |-> error]

Caught(entry) ==
    /\ Len(caller_errors) < MaxCalls
    /\ caller_errors' = Append(caller_errors, entry)

\* process_message, a converse call of the turn fails
LlmCallFails(use_kb_tools, cause, reason) ==
    /\ Caught(CallerError("process_message", "llm", <<use_kb_tools, cause, reason>>,
                          ProcessMessageRaised(ConverseRaised(cause, reason))))
    /\ UNCHANGED << session_vars, chat_vars, session_op, corpus_vars,
                    client_vars >>

\* process_message, the retrieval of the tool set fails
RetrievalFails(use_kb_tools, reason) ==
    /\ Caught(CallerError("process_message", "knowledge_base",
                          <<use_kb_tools, reason>>,
                          ProcessMessageRaised(SelectionRaised(use_kb_tools, reason))))
    /\ UNCHANGED << session_vars, chat_vars, session_op, corpus_vars,
                    client_vars >>

\* sync_tools_to_kb, the tool host does not answer list_tools
ListToolsFails(reason) ==
    /\ Caught(CallerError("sync_tools_to_kb", "tool_host", <<reason>>,
                          SyncToolsToKbRaised(ListToolsRaised(reason))))
    /\ UNCHANGED << session_vars, chat_vars, session_op, corpus_vars,
                    client_vars >>

\* sync_tools_to_kb on a client that has no session
SyncWithoutSession ==
    /\ Caught(CallerError("sync_tools_to_kb", "tool_host", <<"no session">>,
                          SyncToolsToKbRaised(Raised("MCPToolError",
                                                     <<NotInitialized>>))))
    /\ UNCHANGED << session_vars, chat_vars, session_op, corpus_vars,
                    client_vars >>

\* sync_tools_to_kb without a client: the ChatError raised inside the try
\* block is caught by its own handler
SyncWithoutClient ==
    /\ Caught(CallerError("sync_tools_to_kb", "tool_host", <<"no client">>,
                          SyncToolsToKbRaised(Raised("ChatError",
                              <<"MCP client not initialized. Cannot sync tools.">>))))
    /\ UNCHANGED << session_vars, chat_vars, session_op, corpus_vars,
                    client_vars >>

\* sync_tools_to_kb, the ingestion job ends FAILED
IngestionFails(reason) ==
    /\ Caught(CallerError("sync_tools_to_kb", "knowledge_base", <<reason>>,
                          SyncToolsToKbRaised(WriteToolsRaised(
                              WriteToolsToKnowledgeBaseRaised(
                                  IngestionFailedRaised(reason))))))
    /\ UNCHANGED << session_vars, chat_vars, session_op, corpus_vars,
                    client_vars >>

NextErrors ==
    \/ \E use_kb_tools \in BOOLEAN, cause \in ConverseCauses, reason \in Reasons :
          LlmCallFails(use_kb_tools, cause, reason)
    \/ \E use_kb_tools \in BOOLEAN, reason \in Reasons :
          RetrievalFails(use_kb_tools, reason)
    \/ \E reason \in Reasons : ListToolsFails(reason)
    \/ SyncWithoutSession
    \/ SyncWithoutClient
    \/ \E reason \in Reasons : IngestionFails(reason)

SpecErrors == InitClient /\ [][NextErrors]_vars

-----------------------------------------------------------------------------
(* Two process_message calls on one ChatManager.  process_message takes no *)
(* lock and keeps no flag that a call is under way: a caller that starts a  *)
(* second call as a task, while the first is suspended in "await            *)
(* self._mcp_client.call_tool", has it run on the same ChatSession.  The    *)
(* retrieval and the converse call do not suspend (the service clients are  *)
(* synchronous), so the second call runs on to its own first tool call or   *)
(* to its end; it is followed here when the LLM answers it without a tool   *)
(* request                                                                  *)

\* replies to the second call: no tool request
OverlapReplies ==
    {r \in LLMReplies : r.usage = FullUsage /\ r.toolUses = <<>>
                        /\ r.stopReason = "end_turn"}

\* where the second call ends: it returns, or it raises at the selection of
\* the tool set or at the converse call
OverlapEnds == {"returned", "select_raised", "llm_raised"}

\* the log once a process_message call that meets no tool request has
\* ended: its user message and, if it returned, the text of the reply
LogAfterCall(msgs, user_input, end, reply) ==
    IF end = "returned"
    THEN WithAssistantText(Append(msgs, UserMessage(user_input)),
                           ExtractTextContent(reply.text))
    ELSE Append(msgs, UserMessage(user_input))

\* a second process_message call, started while the first waits for its
\* tool call
OverlappingCall(user_input, end, reply) ==
    /\ pc = "tool"
    /\ turns < MaxTurns
    /\ Len(messages) < MaxLog
    /\ turns' = turns + 1
    /\ given_inputs' = Append(given_inputs, user_input)
    /\ messages' = LogAfterCall(messages, user_input, end, reply)
    /\ user_inputs' = Append(user_inputs, UserInputEntry(user_input))
    /\ UNCHANGED << manager_vars, turn_vars, env_vars >>
    /\ UNCHANGED apart_vars

NextOverlap ==
    \/ CallSelect
    \/ AnswerSelect
    \/ \E user_input \in UserInputs, end \in OverlapEnds,
          reply \in OverlapReplies :
          OverlappingCall(user_input, end, reply)

SpecOverlap == InitClient /\ [][NextOverlap]_vars

-----------------------------------------------------------------------------
(* The usage of a turn is explored with replies that carry all, one or     *)
(* none of the counters, no text and at most one tool request, a tool host *)
(* that answers every call, and a retrieval that finds nothing             *)

UsageReplies ==
    {r \in LLMReplies : /\ r.text = <<>>
                        /\ Len(r.toolUses) <= 1
                        /\ \A i \in DOMAIN r.toolUses : r.toolUses[i].toolUseId = 1}

NextUsage ==
    \/ Initialize(TRUE)
    \/ \E use_kb_tools \in BOOLEAN : ProcessMessage("a", use_kb_tools)
    \/ KbQueryReturn(<<>>)
    \/ \E reply \in UsageReplies : ConverseReturn(reply)
    \/ ConverseFail
    \/ \E outcome \in SelectOutcomes : CallToolReturn(outcome)
    \/ \E reply \in UsageReplies : FinalConverseReturn(reply)

SpecUsage == Init /\ [][NextUsage]_vars

-----------------------------------------------------------------------------
(* Properties *)

\* the turn has got as far as _generate_response_with_tools or has ended
InOrAfterLoop == pc \in {"llm", "tool", "final", "returned", "raised"}

TurnEnded == pc \in {"returned", "raised"}

IsUserText(m) == m.role = "user" /\ m.kind = "text"

\* position of the user message the current turn appended
TurnStart ==
    CHOOSE i \in DOMAIN messages :
        /\ IsUserText(messages[i])
        /\ \A j \in DOMAIN messages : j > i => ~IsUserText(messages[j])

\* what the current turn has appended after its user message
TurnLog == SubSeq(messages, TurnStart + 1, Len(messages))

CountKind(log, kind) == Cardinality({i \in DOMAIN log : log[i].kind = kind})

\* tool-use messages directly followed by the tool result with their id
Pairs(log) ==
    Cardinality({i \in DOMAIN log :
        /\ log[i].kind = "toolUse"
        /\ i < Len(log)
        /\ log[i + 1].kind = "toolResult"
        /\ log[i + 1].id = log[i].id})

RECURSIVE SumBlocks(_)
\* tool-use blocks carried by the first n replies of the turn
SumBlocks(n) == IF n = 0 THEN 0 ELSE llm_replies[n].blocks + SumBlocks(n - 1)

\* C1: in every state of a turn with round limit max_rounds, the tool-round
\* counter is at most max_rounds and the LLM calls issued so far are at most
\* max_rounds + 1, whatever the LLM returns
C1_RoundsAndCallsBounded ==
    InOrAfterLoop =>
        /\ tool_rounds <= max_tool_rounds
        /\ Len(llm_requests) <= max_tool_rounds + 1

\* the limit of two rounds is reached and the third call is out
C1_LimitReached ==
    /\ pc = "final"
    /\ max_tool_rounds = 2
    /\ tool_rounds = 2
    /\ Len(llm_requests) = 3

\* C2: when every LLM, tool and retrieval call is eventually answered, a
\* turn that has started eventually returns or raises
C2_TurnTerminates == (~Quiescent) ~> Quiescent

\* a turn has returned although every reply asked for tools
C2_ReturnedAfterAllToolUse ==
    /\ pc = "returned"
    /\ Len(llm_replies) = 3
    /\ \A i \in DOMAIN llm_replies : llm_replies[i].stopReason = "tool_use"

\* C3: every message of the log that holds a tool result is a user message
\* whose immediate predecessor is an assistant message holding the tool use
\* with the same id
C3_ToolResultFollowsToolUse ==
    \A i \in DOMAIN messages :
        messages[i].kind = "toolResult" =>
            /\ messages[i].role = "user"
            /\ i > 1
            /\ messages[i - 1].role = "assistant"
            /\ messages[i - 1].kind = "toolUse"
            /\ messages[i - 1].id = messages[i].id

\* a second turn has ended with a tool result in a log that also holds the
\* messages of the first turn
C3_ResultInSecondTurn ==
    /\ turns = 2
    /\ TurnEnded
    /\ TurnStart > 1
    /\ CountKind(TurnLog, "toolResult") >= 1

\* C4: whenever process_message has returned or raised, every tool-use
\* message of the log is directly followed by the tool result with its id
C4_NoToolUseLeftOpen ==
    TurnEnded => Pairs(messages) = CountKind(messages, "toolUse")

\* C5: a tool call that fails is answered with an error tool result for the
\* same id; the turn goes on with the next tool request of the reply, or
\* with the next LLM call when there is none
C5_ToolFailureContinues ==
    [][ ( /\ pc = "tool"
          /\ Len(tool_failures') = Len(tool_failures) + 1
          /\ tool_failures'[Len(tool_failures')] )
        =>
        ( /\ Len(messages') > Len(messages)
          /\ messages'[Len(messages) + 1].kind = "toolResult"
          /\ messages'[Len(messages) + 1].status = "error"
          /\ messages'[Len(messages) + 1].id = current[1].toolUseId
          /\ IF pending # <<>>
             THEN /\ pc' = "tool"
                  /\ current' = <<Head(pending)>>
                  /\ tool_requests' = Append(tool_requests, Head(pending))
             ELSE /\ pc' \in {"llm", "final"}
                  /\ Len(llm_requests') = Len(llm_requests) + 1 ) ]_vars

\* after a failed first tool call the second request of the reply was sent
\* and answered, and the next LLM call is out
C5_FailedThenContinued ==
    /\ pc \in {"llm", "final"}
    /\ Len(tool_failures) = 2
    /\ tool_failures[1]
    /\ Len(tool_requests) = 2
    /\ Len(llm_requests) = 2

\* C6: a failed LLM call ends the turn with an exception; it adds no LLM
\* call and no tool call, and the turn stays ended
C6_LLMFailureIsFatal ==
    /\ [](llm_failures > 0 => (pc = "raised" /\ llm_failures = 1))
    /\ [][ llm_failures' > llm_failures =>
             /\ pc' = "raised"
             /\ UNCHANGED << llm_requests, tool_requests, messages >> ]_vars

\* the final call after two rounds has failed
C6_FinalCallFailed ==
    /\ pc = "raised"
    /\ llm_failures = 1
    /\ max_tool_rounds = 2
    /\ Len(llm_requests) = 3

\* the first k replies ask for one tool each
LeadingToolUse(k) ==
    \A i \in 1..k :
        llm_replies[i].stopReason = "tool_use" /\ llm_replies[i].blocks = 1

\* C7: k replies with stop reason tool_use and one block each, then a reply
\* with another stop reason, k below the round limit: the turn has returned
\* with k + 1 LLM calls, k tool-use/tool-result pairs, tool_rounds = k and
\* the stop reason of the last reply
C7_StopsAfterKRounds ==
    \A k \in 0..MaxRoundsCfg :
        ( /\ Len(llm_replies) >= k + 1
          /\ LeadingToolUse(k)
          /\ llm_replies[k + 1].stopReason # "tool_use"
          /\ k < max_tool_rounds )
        =>
        ( /\ pc = "returned"
          /\ Len(llm_requests) = k + 1
          /\ CountKind(TurnLog, "toolUse") = k
          /\ CountKind(TurnLog, "toolResult") = k
          /\ Pairs(TurnLog) = k
          /\ result[1].tool_rounds = k
          /\ result[1].stop_reason = llm_replies[k + 1].stopReason )

\* one round below a limit of two, then end_turn
C7_OneRoundThenEnd ==
    /\ pc = "returned"
    /\ max_tool_rounds = 2
    /\ Len(llm_replies) = 2
    /\ LeadingToolUse(1)
    /\ llm_replies[2].stopReason = "end_turn"
    /\ result[1].tool_rounds = 1

\* C8: when every reply of an ended turn has stop reason tool_use, the turn
\* has run max_rounds rounds and one final call, has started no tool of the
\* final reply, and has returned max_rounds_reached with the text of the
\* final reply
C8_RunsToTheLimit ==
    ( /\ TurnEnded
      /\ llm_replies # <<>>
      /\ llm_failures = 0
      /\ \A i \in DOMAIN llm_replies : llm_replies[i].stopReason = "tool_use" )
    =>
    ( /\ pc = "returned"
      /\ tool_rounds = max_tool_rounds
      /\ Len(llm_requests) = max_tool_rounds + 1
      /\ Len(llm_replies) = max_tool_rounds + 1
      /\ CountKind(TurnLog, "toolUse") = SumBlocks(max_tool_rounds)
      /\ result[1].max_rounds_reached = <<TRUE>>
      /\ result[1].tool_rounds = max_tool_rounds
      /\ result[1].text = ExtractTextContent(llm_replies[max_tool_rounds + 1].text) )

\* C9: one retrieval request per turn, answered before the first LLM call;
\* every LLM call of the turn carries the tool set chosen from its answer
C9_OneToolSetPerTurn ==
    llm_requests # <<>> =>
        /\ Len(kb_request) = 1
        /\ Len(kb_response) = 1
        /\ \A i \in DOMAIN llm_requests :
              llm_requests[i].toolConfig = tool_config

\* a turn that ran into the final call while a live listing was stored
C9_FinalCallWithListingStored ==
    /\ pc = "returned"
    /\ result[1].max_rounds_reached = <<TRUE>>
    /\ Len(llm_requests) = 3
    /\ tool_config_attr # <<>>
    /\ tool_config # tool_config_attr

\* the context text is the inputs in order, each after "user: ", the
\* entries separated by a line break
LabelledLines(text, inputs) ==
    /\ Len(text) = 3 * Len(inputs) - 1
    /\ \A i \in DOMAIN inputs :
          /\ text[3 * i - 2] = "user: "
          /\ text[3 * i - 1] = inputs[i]
          /\ i < Len(inputs) => text[3 * i] = "\n"

\* the retrieval request and the tool set of the LLM calls, for a context
\* text of the given form
ToolSetFromIndex(ContextForm(_, _)) ==
    pc # "idle" =>
        /\ Len(kb_request) = 1
        /\ IF given_use_kb
           THEN /\ kb_request[1].numberOfResults = TopK
                /\ ContextForm(kb_request[1].text, given_inputs)
           ELSE kb_request[1] = [text |-> BroadQuery,
                                 numberOfResults |-> QueryAllMaxResults]
        /\ \A i \in DOMAIN llm_requests :
              /\ llm_requests[i].toolConfig =
                    BedrockFormat(QuerySemantic(kb_response[1]))
              /\ llm_requests[i].toolConfig # <<LiveToolConfig>>

PlainConcatenation(text, inputs) == text = inputs

-----------------------------------------------------------------------------
(* Properties of the ChatSession *)

LastMessage == messages[Len(messages)]

\* the log is the log before the call with one message added at its end
OneAppended ==
    /\ Len(messages) = Len(session_op.before) + 1
    /\ \A i \in DOMAIN session_op.before : messages[i] = session_op.before[i]

Structured(content) == content.type \in {"dict", "list"}

\* C11: add_tool_result appends one user message holding a tool result with
\* the id and status given; the content goes out as json with the value
\* itself exactly when the status is success and the content a dict or
\* list, and as text holding str(content) otherwise
C11_ToolResultEncoding ==
    session_op.op = "add_tool_result" =>
        /\ OneAppended
        /\ LastMessage.role = "user"
        /\ LastMessage.kind = "toolResult"
        /\ LastMessage.id = session_op.id
        /\ LastMessage.status = session_op.status
        /\ LastMessage.body[1] \in {"json", "text"}
        /\ LastMessage.body[1] = "json" <=>
              (session_op.status = "success" /\ Structured(session_op.content))
        /\ LastMessage.body[2] =
              IF session_op.status = "success" /\ Structured(session_op.content)
              THEN session_op.content.v
              ELSE StrOf(session_op.content)

\* an int passed with status success has been added to a log that was not
\* empty
C11_IntAsText ==
    /\ session_op.op = "add_tool_result"
    /\ session_op.content.type = "int"
    /\ session_op.status = "success"
    /\ session_op.before # <<>>

\* C12 as stated: a dict or list goes out as json for every status
C12_StructuredAlwaysJson ==
    (session_op.op = "add_tool_result" /\ Structured(session_op.content)) =>
        LastMessage.body[1] = "json"

\* C12, amended: a dict or list goes out as json when the status is
\* success, and as text holding str(content) for every other status
C12_StructuredJsonOnSuccess ==
    (session_op.op = "add_tool_result" /\ Structured(session_op.content)) =>
        IF session_op.status = "success"
        THEN LastMessage.body = <<"json", session_op.content.v>>
        ELSE LastMessage.body = <<"text", StrOf(session_op.content)>>

\* a dict has been passed with status error
C12_DictWithError ==
    /\ session_op.op = "add_tool_result"
    /\ session_op.content.type = "dict"
    /\ session_op.status = "error"

\* C13: each add method leaves the log as it was with exactly one message
\* added at the end; only clear takes messages away
C13_AppendOnly ==
    /\ session_op.op \in {"add_user_message", "add_assistant_message",
                          "add_tool_use", "add_tool_result"} => OneAppended
    /\ session_op.op = "clear" => messages = <<>>

\* a tool use has been added to a log of two messages
C13_ThirdMessageAdded ==
    /\ session_op.op = "add_tool_use"
    /\ Len(session_op.before) = 2
    /\ Len(messages) = 3

\* C14: the first turn after a clear, like the first turn of a new session,
\* sends the LLM a log that starts with the user message of that turn and
\* holds no other user text, and, with retrieval, queries the index with a
\* context made of that one input
C14_ClearedAsFresh ==
    (pc # "idle" /\ Len(given_inputs) = 1) =>
        /\ given_use_kb => kb_request[1].text = <<"user: ", given_inputs[1]>>
        /\ \A i \in DOMAIN llm_requests :
              LET sent == llm_requests[i].messages IN
              /\ sent[1] = UserMessage(given_inputs[1])
              /\ \A j \in DOMAIN sent : IsUserText(sent[j]) => j = 1
        /\ llm_requests # <<>> =>
              llm_requests[1].messages = <<UserMessage(given_inputs[1])>>

\* the second turn of a session that was cleared after the first, with
\* retrieval and an LLM call out
C14_TurnAfterClear ==
    /\ turns = 2
    /\ Len(given_inputs) = 1
    /\ given_use_kb
    /\ llm_requests # <<>>

-----------------------------------------------------------------------------
(* Properties of write_tools_to_knowledge_base *)

KbEnded == kb_pc \in {"returned", "raised"}

LastOutcome == kb_outcome[Len(kb_outcome)]

\* the step of the operation a request belongs to: Clear, Materialize,
\* Ingest, Await
StepOf(call) ==
    CASE call \in {"list", "delete", "wait_absent"} -> 1
      [] call \in {"write_file", "upload", "wait_present"} -> 2
      [] call = "start" -> 3
      [] call = "get" -> 4
      [] OTHER -> 5

\* C15: a call with an empty tool list raises a validation error with no
\* request made: nothing listed, deleted or uploaded, no file written, no
\* ingestion job started, the objects under the prefix as they were
C15_EmptyListRejected ==
    (kb_input.tools_data = << <<>> >>) =>
        /\ kb_pc = "raised"
        /\ LastOutcome.kind = "ValueError"
        /\ LastOutcome.cause = "empty"
        /\ kb_calls = <<>>
        /\ temp_file = "none"
        /\ objects = kb_input.objects

\* an empty list has been rejected while the prefix holds an object
C15_RejectedWithObjectsStored ==
    /\ kb_input.tools_data = << <<>> >>
    /\ kb_pc = "raised"
    /\ objects # {}

\* the requests come in the order of the steps, a job is only started after
\* the uploaded object was confirmed present, and after a failed request of
\* the given kinds nothing follows but the removal of the temporary file,
\* and the call does not return
StepsInOrder(aborting) ==
    /\ \A i, j \in DOMAIN kb_calls :
          i < j => StepOf(kb_calls[i].call) <= StepOf(kb_calls[j].call)
    /\ \A j \in DOMAIN kb_calls :
          kb_calls[j].call = "start" =>
              \E i \in 1..(j - 1) :
                  kb_calls[i].call = "wait_present" /\ kb_calls[i].ok
    /\ \A i \in DOMAIN kb_calls :
          (kb_calls[i].call \in aborting /\ ~kb_calls[i].ok) =>
              /\ \A j \in DOMAIN kb_calls : j > i => kb_calls[j].call = "remove"
              /\ kb_pc \in {"cleanup", "raised"}

C17_TimeoutOfAnotherKind ==
    \A i, j \in DOMAIN kb_outcome :
        (kb_outcome[i].cause = "timeout" /\ kb_outcome[j].cause = "failed") =>
            kb_outcome[i].kind # kb_outcome[j].kind

\* C18: the error raised for a job that ended in FAILED holds the failure
\* reasons the service reported for it
C18_ReasonsCarried ==
    \A i \in DOMAIN kb_outcome :
        (kb_outcome[i].cause = "failed" /\ kb_outcome[i].reported # <<>>) =>
            \E k \in DOMAIN kb_outcome[i].message :
                kb_outcome[i].message[k] = kb_outcome[i].reported[1]

\* the status of the last poll of the call
LastPolled ==
    LET gets == {i \in DOMAIN kb_calls : kb_calls[i].call = "get"}
    IN  kb_calls[CHOOSE i \in gets : \A j \in gets : j <= i]

\* C19: a wait that ends on STOPPED or COMPLETE makes the call return that
\* status, and write_tools and sync_tools_to_kb above it return as well
C19_StoppedReturns ==
    ( /\ KbEnded
      /\ \E i \in DOMAIN kb_calls : kb_calls[i].call = "get"
      /\ LastPolled.ok
      /\ LastPolled.status \in {"STOPPED", "COMPLETE"} )
    =>
    ( /\ kb_pc = "returned"
      /\ LastOutcome.kind = "IngestionJobResult"
      /\ LastOutcome.status = LastPolled.status
      /\ WriteToolsOutcome(LastOutcome).kind = "IngestionJobResult"
      /\ WriteToolsOutcome(LastOutcome).status = LastPolled.status
      /\ SyncToolsOutcome(WriteToolsOutcome(LastOutcome)).kind = "None" )

\* a call has returned STOPPED after a second poll
C19_StoppedAfterTwoPolls ==
    /\ kb_pc = "returned"
    /\ LastOutcome.status = "STOPPED"
    /\ Polls = 2

\* C20: when the call has returned or raised, the temporary file it created
\* does not exist
C20_TempFileGone == KbEnded => temp_file # "exists"

-----------------------------------------------------------------------------
(* Properties of the Clear step and of the corpus it leaves *)

\* the Clear step has reported success: Materialize has been reached
ClearSucceeded ==
    kb_pc \in {"write_file", "upload", "wait_present", "start", "poll"}
    \/ \E i \in DOMAIN kb_calls : StepOf(kb_calls[i].call) \in 2..4

TwiceInARow ==
    /\ kb_pc = "returned"
    /\ Len(kb_outcome) >= 2
    /\ kb_outcome[Len(kb_outcome) - 1].kind = "IngestionJobResult"
    /\ kb_input.again

\* the prefix holds what a single call leaves there: nothing the call before
\* uploaded, and the records of the tool list, each as often as in the list
SingleCallCorpus ==
    /\ (Len(kb_outcome) - 1) \notin objects
    /\ Ingested(objects, object_lines) = JsonlLines(kb_input.tools_data[1])

\* the Clear of the last call saw every key it deleted absent
ClearConfirmed ==
    \A i \in DOMAIN kb_calls :
        kb_calls[i].call = "wait_absent" => kb_calls[i].ok

-----------------------------------------------------------------------------
(* Properties of queryall after a write *)

\* queryall has returned a result right after a write that returned with
\* status COMPLETE
ReadBack ==
    /\ IndexKnown
    /\ kb_query # <<>>
    /\ kb_query[1].kind = "dict"

\* the tool names in the result of queryall and in the list written
NamesReadEqualWritten ==
    LET read == kb_query[1].tools
        written == kb_input.tools_data[1]
    IN  {NameOf(read[i]) : i \in DOMAIN read}
        = {written[i].name : i \in DOMAIN written}

-----------------------------------------------------------------------------
(* Properties of query *)

IsDescriptor(payload) == payload \in DescriptorTexts

\* C24: whatever hits the retrieval service returns, query returns a normal
\* result that holds, in hit order, exactly the hits whose payload parses as
\* a tool descriptor, with their number as count; a hit that does not parse
\* as a descriptor is dropped and does not make the query fail
C24_UnparseableHitsDropped ==
    kb_response # <<>> =>
        LET hits == kb_response[1]
            q == QuerySemantic(hits)
        IN  /\ q.ok
            /\ q.tools = SelectSeq(hits, IsDescriptor)
            /\ q.total_results = Len(q.tools)
            /\ Len(llm_requests) >= 1
            /\ tool_config = BedrockFormat(q)

-----------------------------------------------------------------------------
(* Properties of the MCPClient *)

IsLifecycle(e) == e.op \in {"connect", "disconnect", "manager_enter", "cleanup"}

\* list_tools or call_tool
UsesHost(e) == e.op \in {"list_tools", "call_tool"}

\* the call was rejected as not connected, with nothing sent to the host
Rejected(e) ==
    /\ e.outcome = "MCPToolError"
    /\ e.message = NotInitialized
    /\ e.sent = 0

\* C25: a connect that fails at any step raises and leaves the client
\* Disconnected: _session is not set, and a list_tools or call_tool that
\* follows is rejected as not connected
C25_FailedConnectLeavesDisconnected ==
    \A i \in DOMAIN client_log :
        (client_log[i].op = "connect" /\ client_log[i].arg # <<"none">>) =>
            /\ client_log[i].outcome = "MCPToolError"
            /\ i = Len(client_log) => mcp.session = "none"
            /\ (i < Len(client_log) /\ UsesHost(client_log[i + 1])) =>
                   Rejected(client_log[i + 1])

\* C26: when connect, or entering the ChatManager, fails after the process
\* link was opened, the link and the partially opened session are torn down
C26_FailedConnectTornDown ==
    \A i \in DOMAIN client_log :
        (/\ i = Len(client_log)
         /\ client_log[i].op \in {"connect", "manager_enter"}
         /\ client_log[i].arg[1] \in {"session", "handshake"}) =>
            /\ mcp.link = "closed"
            /\ mcp.host_session = "closed"

\* the teardown steps whose context the client held
HeldSteps(c) ==
    {step \in {"session", "stdio"} :
        \/ step = "session" /\ c.session_context = "set"
        \/ step = "stdio" /\ c.stdio_context = "set"}

\* the client as the operation after entry i found it, or as it is now
After(i) ==
    IF i < Len(client_log) THEN client_log[i + 1].before ELSE mcp

\* C27: disconnect never raises, whatever the two closes do; it attempts
\* the close of every context the client holds, the second also after a
\* failed first; afterwards the client is Disconnected, so that list_tools
\* and call_tool are rejected; without a context (a second disconnect, or
\* none opened) it changes nothing
C27_DisconnectNeverRaises ==
    \A i \in DOMAIN client_log :
        client_log[i].op = "disconnect" =>
            /\ client_log[i].outcome = "returned"
            /\ client_log[i].attempts = HeldSteps(client_log[i].before)
            /\ After(i).session = "none"
            /\ HeldSteps(After(i)) = {}
            /\ (i < Len(client_log) /\ UsesHost(client_log[i + 1])) =>
                   Rejected(client_log[i + 1])
            /\ HeldSteps(client_log[i].before) = {} =>
                   After(i) = client_log[i].before
            /\ (i > 1 /\ client_log[i - 1].op = "disconnect") =>
                   After(i) = client_log[i].before

\* a connected client was disconnected with both closes failing, and the
\* call_tool that followed was rejected
C27_BothClosesFailed ==
    \E i \in DOMAIN client_log :
        /\ client_log[i].op = "disconnect"
        /\ client_log[i].before.host_session = "ready"
        /\ client_log[i].arg = <<"error", "timeout">>
        /\ i < Len(client_log)
        /\ client_log[i + 1].op = "call_tool"

\* C28: a call_tool that passes the session check sends exactly one request
\* to the host; when the host answers with the error flag or the transport
\* fails it raises MCPToolError with the tool name in its message, and
\* sends nothing more
C28_OneRequestNoRetry ==
    \A i \in DOMAIN client_log :
        (client_log[i].op = "call_tool"
         /\ client_log[i].before.session = "set") =>
            /\ client_log[i].sent = 1
            /\ client_log[i].arg[2] = "ok" => client_log[i].outcome = "returned"
            /\ client_log[i].arg[2] \in {"error_flag", "transport"} =>
                   /\ client_log[i].outcome = "MCPToolError"
                   /\ \E j \in DOMAIN client_log[i].message :
                          client_log[i].message[j] = client_log[i].arg[1]

\* the host has answered a call on a connected client with the error flag
C28_ErrorFlagRaised ==
    \E i \in DOMAIN client_log :
        /\ client_log[i].op = "call_tool"
        /\ client_log[i].before.host_session = "ready"
        /\ client_log[i].arg = <<"B", "error_flag">>
        /\ client_log[i].outcome = "MCPToolError"

\* no connect has been called before entry i, or the last call before it
\* that opens or closes the connection was a disconnect
BeforeConnectOrAfterDisconnect(i) ==
    LET lifecycle == {j \in 1..(i - 1) : IsLifecycle(client_log[j])}
    IN  \/ lifecycle = {}
        \/ \E j \in lifecycle :
              /\ \A k \in lifecycle : k <= j
              /\ client_log[j].op = "disconnect"

\* C29: before the first connect and after disconnect, list_tools and
\* call_tool raise MCPToolError and send nothing to the tool host
C29_OnlyWhenConnected ==
    \A i \in DOMAIN client_log :
        (UsesHost(client_log[i]) /\ BeforeConnectOrAfterDisconnect(i)) =>
            /\ client_log[i].outcome = "MCPToolError"
            /\ client_log[i].sent = 0

\* list_tools was rejected after a connect that succeeded and a disconnect
C29_RejectedAfterDisconnect ==
    /\ Len(client_log) = 3
    /\ client_log[1].op = "connect"
    /\ client_log[1].arg = <<"none">>
    /\ client_log[2].op = "disconnect"
    /\ client_log[3].op = "list_tools"
    /\ Rejected(client_log[3])

-----------------------------------------------------------------------------
(* Properties of the errors that reach the caller *)

\* C30: failures of the LLM call, of the tool host and of retrieval or
\* ingestion reach the caller of process_message and sync_tools_to_kb as
\* errors of distinguishable kinds: two failures of different origin never
\* arrive as exceptions of the same class
C30_KindsDistinguishable ==
    \A i, j \in DOMAIN caller_errors :
        caller_errors[i].origin # caller_errors[j].origin =>
            caller_errors[i].error.kind # caller_errors[j].error.kind

-----------------------------------------------------------------------------
(* Properties of calls that overlap *)

\* C31: while a process_message call is suspended waiting for a tool call,
\* no other process_message call appends a message to the Session: the log
\* still ends with the tool-use message of the tool that is awaited, so that
\* its tool result will follow it directly
C31_NoAppendWhileSuspended ==
    pc = "tool" => LastMessage = ToolUseMessage(current[1])

-----------------------------------------------------------------------------
(* Properties of the order of the calls of a turn *)

\* calls that have been issued and not yet answered
LlmOutstanding == Len(llm_requests) - Len(llm_replies) - llm_failures
ToolOutstanding == Len(tool_requests) - Len(tool_failures)

LastReply == llm_replies[Len(llm_replies)]

\* from position base + 1 on, the log holds the first k tool requests of
\* the reply in their order, each directly followed by its tool result
PairsInOrder(toolUses, k, base) ==
    \A j \in 1..k :
        /\ messages[base + 2 * j - 1] = ToolUseMessage(toolUses[j])
        /\ messages[base + 2 * j].kind = "toolResult"
        /\ messages[base + 2 * j].id = toolUses[j].toolUseId

\* C32: within a turn at most one LLM call or tool call is outstanding; the
\* tool requests of a reply are invoked in the order of the reply, each
\* after the results of those before it have been appended, and the next
\* LLM call goes out only when each of them has its result in the log
C32_OneCallAtATime ==
    /\ LlmOutstanding + ToolOutstanding <= 1
    /\ LlmOutstanding = 1 <=> pc \in {"llm", "final"}
    /\ ToolOutstanding = 1 <=> pc = "tool"
    /\ pc = "tool" =>
          LET k == LastReply.blocks - Len(pending) IN
          /\ k >= 1
          /\ current = <<LastReply.toolUses[k]>>
          /\ tool_requests[Len(tool_requests)] = LastReply.toolUses[k]
          /\ pending = SubSeq(LastReply.toolUses, k + 1, LastReply.blocks)
          /\ Len(messages) >= 2 * k - 1
          /\ PairsInOrder(LastReply.toolUses, k - 1, Len(messages) - (2 * k - 1))
          /\ LastMessage = ToolUseMessage(LastReply.toolUses[k])
    /\ (pc \in {"llm", "final"} /\ llm_replies # <<>>) =>
          /\ LastReply.stopReason = "tool_use"
          /\ Len(messages) >= 2 * LastReply.blocks
          /\ PairsInOrder(LastReply.toolUses, LastReply.blocks,
                          Len(messages) - 2 * LastReply.blocks)
          /\ llm_requests[Len(llm_requests)].messages = messages

\* the LLM call after a reply with two different tool requests is out, both
\* tools were invoked and the first of them had failed
C32_TwoToolsThenNextCall ==
    /\ pc = "llm"
    /\ llm_replies # <<>>
    /\ LastReply.blocks = 2
    /\ LastReply.toolUses[1].toolUseId # LastReply.toolUses[2].toolUseId
    /\ Len(tool_requests) = 2
    /\ tool_failures = <<TRUE, FALSE>>

-----------------------------------------------------------------------------
(* Properties of the usage a turn returns *)

RECURSIVE SumCounter(_, _)
\* sum over the first n replies of the turn of the counter the reply
\* carries under key, 0 where the reply has none
SumCounter(n, key) ==
    IF n = 0 THEN 0
    ELSE (IF llm_replies[n].usage[key] = <<>> THEN 0
          ELSE llm_replies[n].usage[key][1]) + SumCounter(n - 1, key)

\* C33: the usage a turn returns is, for input, output and total tokens,
\* the sum of the counters the replies of all LLM calls of the turn carried,
\* the final call included, a missing counter counting as 0
C33_UsageIsSumOverCalls ==
    pc = "returned" =>
        /\ Len(llm_replies) = Len(llm_requests)
        /\ result[1].usage.input_tokens =
              SumCounter(Len(llm_replies), "inputTokens")
        /\ result[1].usage.output_tokens =
              SumCounter(Len(llm_replies), "outputTokens")
        /\ result[1].usage.total_tokens =
              SumCounter(Len(llm_replies), "totalTokens")

\* a turn has returned from the final call after two rounds; one reply
\* carried all counters, one only the input counter and one none
C33_FinalCallCounted ==
    /\ pc = "returned"
    /\ result[1].max_rounds_reached = <<TRUE>>
    /\ Len(llm_replies) = 3
    /\ llm_replies[1].usage = FullUsage
    /\ llm_replies[2].usage = NoUsage
    /\ llm_replies[3].usage = InputUsage
    /\ result[1].usage = [input_tokens |-> 4, output_tokens |-> 1,
                          total_tokens |-> 2]

-----------------------------------------------------------------------------
(* Properties of the wait for the ingestion job *)

TerminalStatuses == {"COMPLETE", "FAILED", "STOPPED"}

IsPoll(i) == kb_calls[i].call = "get"

\* the wait of the current call has ended and the call has its outcome
WaitOver == kb_pc \in {"cleanup", "returned", "raised"}

\* no poll follows the i-th request and none is outstanding
LastPollAt(i) ==
    /\ kb_pc # "poll"
    /\ \A j \in DOMAIN kb_calls : j > i => ~IsPoll(j)

PollsStopAtTerminal ==
    \A i \in DOMAIN kb_calls :
        IsPoll(i) =>
            \* a poll whose request failed: the wait raises at once
            /\ ~kb_calls[i].ok =>
                  LastPollAt(i) /\ WaitOver /\ LastOutcome.cause = "get"
            \* a poll with a terminal status is the last one
            /\ (kb_calls[i].ok /\ kb_calls[i].status \in TerminalStatuses) =>
                  /\ LastPollAt(i)
                  /\ WaitOver
                  /\ LastOutcome.cause =
                        IF kb_calls[i].status = "FAILED" THEN "failed"
                        ELSE "terminal"
                  /\ kb_calls[i].status # "FAILED" =>
                        LastOutcome.status = kb_calls[i].status
            \* any other status: another poll, or the timeout
            /\ (kb_calls[i].ok /\ kb_calls[i].status \notin TerminalStatuses) =>
                  \/ i < Len(kb_calls) /\ IsPoll(i + 1)
                  \/ i = Len(kb_calls) /\ kb_pc = "poll"
                  \/ LastPollAt(i) /\ WaitOver /\ LastOutcome.cause = "timeout"

\* C34: the wait for an ingestion job stops at the first poll that reports
\* COMPLETE, FAILED or STOPPED and polls no more; after any other status it
\* polls again unless the timeout has passed, and then it ends with the
\* timeout error; a poll whose request fails ends it at once; and a wait
\* that has started always ends
C34_WaitPollsUntilTerminal ==
    /\ []PollsStopAtTerminal
    /\ (kb_pc = "poll") ~> WaitOver

\* a wait has ended with the timeout after two polls that reported a job
\* in progress
C34_TimedOutAfterTwoPolls ==
    /\ WaitOver
    /\ LastOutcome.cause = "timeout"
    /\ Polls = 2
    /\ \A i \in DOMAIN kb_calls : IsPoll(i) => kb_calls[i].status = "IN_PROGRESS"

-----------------------------------------------------------------------------
(* Properties of the Materialize step *)

\* the Materialize step of the current call has succeeded: the uploaded
\* object has been confirmed present
MaterializeSucceeded ==
    \E i \in DOMAIN kb_calls :
        kb_calls[i].call = "wait_present" /\ kb_calls[i].ok

\* the key the current call uploads under
UploadedKey == IF WaitOver THEN Len(kb_outcome) ELSE Len(kb_outcome) + 1

\* the object holds one JSON record per tool of the list, line by line in
\* the order of the list
OneRecordPerTool(lines, tools) ==
    /\ Len(lines) = Len(tools)
    /\ \A i \in DOMAIN tools : lines[i] = JsonDumps(tools[i])

-----------------------------------------------------------------------------
(* Properties of a write that fails after its Clear step *)

\* the current call has failed in Materialize, Ingest or Await, its Clear
\* step having succeeded
FailedAfterClear ==
    /\ kb_pc \in {"cleanup", "raised"}
    /\ LastOutcome.kind # "IngestionJobResult"
    /\ \E i \in DOMAIN kb_calls : StepOf(kb_calls[i].call) \in 2..4

Uploaded == \E i \in DOMAIN kb_calls : kb_calls[i].call = "upload" /\ kb_calls[i].ok

\* no poll of the current call has reported the job complete
NoIngestionCompleted ==
    \A i \in DOMAIN kb_calls : IsPoll(i) => kb_calls[i].status # "COMPLETE"

-----------------------------------------------------------------------------
(* Properties of a turn that raises *)

IsPrefixOf(s, t) == Len(s) <= Len(t) /\ SubSeq(t, 1, Len(s)) = s

\* the user inputs given since the last clear, as add_user_message records
\* them
RecordedInputs ==
    [i \in DOMAIN given_inputs |-> UserInputEntry(given_inputs[i])]

\* a turn that has raised leaves its user message and its user input in
\* the session
RaisedTurnKept ==
    pc = "raised" =>
        /\ \E i \in DOMAIN messages : IsUserText(messages[i])
        /\ messages[TurnStart] = UserMessage(given_inputs[Len(given_inputs)])
        /\ user_inputs = RecordedInputs

\* every converse request of the turn carries the log as it stood when
\* the turn began, followed by the user message of the turn
EarlierLogSent ==
    \A i \in DOMAIN llm_requests :
        IsPrefixOf(SubSeq(messages, 1, TurnStart), llm_requests[i].messages)

\* the step on which a turn raises removes nothing from the session
RaiseKeepsSession ==
    (pc # "raised" /\ pc' = "raised") =>
        /\ IsPrefixOf(messages, messages')
        /\ user_inputs' = user_inputs

\* the turn that follows a turn that raised appends to what that turn left
\* and, with retrieval, queries the index with every recorded input
NextTurnBuildsOnRaised ==
    (pc = "raised" /\ turns' = turns + 1) =>
        /\ messages' =
              Append(messages, UserMessage(given_inputs'[Len(given_inputs')]))
        /\ user_inputs' =
              Append(user_inputs,
                     UserInputEntry(given_inputs'[Len(given_inputs')]))
        /\ given_use_kb' =>
              kb_request'[1].text = JoinLines(user_inputs')

\* C37: a turn that raises is not rolled back: every message it appended,
\* the user message included, and its user input stay in the session, and
\* the next turn sends them to the LLM and, with retrieval, to the
\* retrieval query
C37_FailedTurnNotRolledBack ==
    /\ [](RaisedTurnKept /\ EarlierLogSent)
    /\ [][RaiseKeepsSession /\ NextTurnBuildsOnRaised]_vars

\* the second turn follows a turn that raised during a tool round: its
\* converse request carries that turn's user message and its unanswered
\* tool use, and its retrieval query both user inputs
C37_TurnAfterFailedToolRound ==
    /\ turns = 2
    /\ Len(given_inputs) = 2
    /\ given_use_kb
    /\ kb_request[1].text = JoinLines(<<UserInputEntry("a"), UserInputEntry("a")>>)
    /\ llm_requests # <<>>
    /\ Len(llm_requests[1].messages) = 3
    /\ llm_requests[1].messages[1] = UserMessage("a")
    /\ llm_requests[1].messages[2].kind = "toolUse"
    /\ llm_requests[1].messages[3] = UserMessage("a")

-----------------------------------------------------------------------------
(* Properties of the result's round-limit mark *)

\* the result of a returned turn says the limit was reached exactly when
\* its round counter equals the limit, and otherwise has no such entry and
\* a counter below the limit
MarkedIffAtLimit ==
    pc = "returned" =>
        /\ result[1].max_rounds_reached \in {<<>>, <<TRUE>>}
        /\ result[1].tool_rounds = tool_rounds
        /\ result[1].max_rounds_reached = <<TRUE>>
              <=> result[1].tool_rounds = max_tool_rounds
        /\ result[1].max_rounds_reached = <<>>
              <=> result[1].tool_rounds < max_tool_rounds

\* the turn returns with the mark exactly when the call that returned was
\* the final one, made outside the loop
MarkedIffFinalCall ==
    (pc # "returned" /\ pc' = "returned") =>
        /\ pc \in {"llm", "final"}
        /\ pc = "final" <=> result'[1].max_rounds_reached = <<TRUE>>
        /\ pc = "llm" <=> result'[1].max_rounds_reached = <<>>

-----------------------------------------------------------------------------
(* Properties of cleanup after repeated initialize *)

LastClientOp == client_log[Len(client_log)]

\* the client had a connection open on the host side
HeldConnection(c) == c.link = "open" \/ c.host_session # "closed"

\* every initialize() so far has returned
EveryInitializeReturned ==
    \A i \in DOMAIN client_log :
        client_log[i].op = "manager_enter" => client_log[i].outcome = "returned"

\* C39: after cleanup() returns, every connection opened by an earlier
\* initialize() on the manager has been disconnected, also when initialize()
\* ran more than once: no initialize() replaced a client that still held a
\* connection, which nothing can disconnect any more, and the teardown of
\* the client held last has run; cleanup() never raises.  Stated for
\* managers whose initialize() calls all returned.
C39_CleanupDisconnectsEveryClient ==
    (/\ client_log # <<>>
     /\ LastClientOp.op = "cleanup"
     /\ EveryInitializeReturned) =>
        /\ LastClientOp.outcome = "returned"
        /\ \A i \in DOMAIN client_log :
              client_log[i].op = "manager_enter"
                  => ~HeldConnection(client_log[i].before)
        /\ mcp.session_context # "set"
        /\ mcp.stdio_context # "set"

\* cleanup() returns whether or not initialize() ever ran, and leaves no
\* teardown step of the client the manager holds unattempted
C39_CleanupReturns ==
    (client_log # <<>> /\ LastClientOp.op = "cleanup") =>
        /\ LastClientOp.outcome = "returned"
        /\ mcp_client.ref # "client"
        /\ LastClientOp.before.session_context = "set"
              => "session" \in LastClientOp.attempts

====
